---- MODULE Spec2Model ----
(***************************************************************************)
(* A model of the SMM repository: the session-based MVP (smm.c, smm.h,     *)
(* main.c) and the validated terminal variant (DSA_MINI_PROJECT.c).        *)
(*                                                                         *)
(* Strings are sequences of ASCII codes (all > 0, the terminating NUL is   *)
(* implicit).  Pointers to heap nodes are modelled by the values they      *)
(* point to: a BST is a nested record, a linked list is a sequence from    *)
(* head to tail.  Definitions taken from DSA_MINI_PROJECT.c carry the      *)
(* prefix dsa_ (or d_ for state) where smm.c uses the same name.           *)
(***************************************************************************)
EXTENDS Integers, Sequences, FiniteSets, TLC

VARIABLES
    \* ---- smm.c: struct App (app_init) and the static of next_post_id
    users_bst, current, posts, mq, graph,
    admin, current_admin, max_users, max_posts, max_messages, smm_pid,
    \* ---- DSA_MINI_PROJECT.c: struct App (init_app), the static of
    \* next_post_id and the clock read by now_seconds
    d_users, d_published, d_scheduled, d_mq, d_pid, clock,
    \* ---- observation: the last call with its arguments and results, and
    \* the history of successful calls
    last, hist

smmVars == <<users_bst, current, posts, mq, graph,
             admin, current_admin, max_users, max_posts, max_messages, smm_pid>>
dsaVars == <<d_users, d_published, d_scheduled, d_mq, d_pid, clock>>
vars == <<smmVars, dsaVars, last, hist>>

-----------------------------------------------------------------------------
(* Program constants *)

MAX_USERS == 10
MAX_POSTS == 30
MAX_MESSAGES == 20
USERNAME_MAX == 32
PASSWORD_MAX == 32
CONTENT_MAX == 256
DSA_PASSWORD_MAX == 64
DSA_CONTENT_MAX == 512
INITIAL_POST_CAP == 16
SMM_INITIAL_CAP == 8
POP_BUF_LEN == 256
ERR_OK == 0
ERR_ALLOC == 2
ERR_INVALID == 4
ERR_TOO_LONG == 5

-----------------------------------------------------------------------------
(* Strings *)

Min(a, b) == IF a <= b THEN a ELSE b

Rep(c, n) == [i \in 1..n |-> c]

\* strncpy(dst, src, n) into a zeroed or then NUL-terminated buffer of n+1
\* bytes: the first n characters of src.
StrNCpy(s, n) == SubSeq(s, 1, Min(Len(s), n))

\* strcmp: the sign of the first differing character, a proper prefix being
\* smaller (its NUL compares below every character).
StrCmp(s, t) ==
    LET n == Min(Len(s), Len(t))
        diff == {i \in 1..n : s[i] # t[i]}
    IN  IF diff = {}
        THEN (IF Len(s) < Len(t) THEN -1 ELSE IF Len(s) > Len(t) THEN 1 ELSE 0)
        ELSE LET k == CHOOSE i \in diff : \A j \in diff : i <= j
             IN  IF s[k] < t[k] THEN -1 ELSE 1

\* The character classes of <ctype.h> in the C locale, on ASCII codes.
IsSpace(c) == c = 32 \/ c \in 9..13
IsPrint(c) == c \in 32..126

valid_name(s) ==
    /\ Len(s) > 0
    /\ Len(s) < USERNAME_MAX
    /\ \A i \in 1..Len(s) : ~IsSpace(s[i]) /\ IsPrint(s[i])

\* fgets(buf, n, stdin) followed by stripping the newline: at most n-1
\* characters of the typed line are kept.
get_line(typed, n) == StrNCpy(typed, n - 1)

\* strtol(s, &endp, 10) on a line of digits ('0'..'9' are 48..57), with the
\* optional sign ('-' is 45, '+' is 43) and leading blanks it accepts:
\* val is the number read, endp the count of characters consumed (0 when no
\* digit was found, endp == s).
IsDigit(c) == c \in 48..57

RECURSIVE LeadingBlanks(_, _)
LeadingBlanks(s, i) ==
    IF i <= Len(s) /\ IsSpace(s[i]) THEN LeadingBlanks(s, i + 1) ELSE i - 1

RECURSIVE DigitsFrom(_, _, _)
DigitsFrom(s, i, acc) ==
    IF i <= Len(s) /\ IsDigit(s[i])
    THEN DigitsFrom(s, i + 1, acc * 10 + (s[i] - 48))
    ELSE [val |-> acc, next |-> i]

strtol(s) ==
    LET b == LeadingBlanks(s, 1) + 1
        signed == b <= Len(s) /\ s[b] \in {43, 45}
        neg == b <= Len(s) /\ s[b] = 45
        d0 == IF signed THEN b + 1 ELSE b
        r == DigitsFrom(s, d0, 0)
    IN  IF r.next = d0 THEN [val |-> 0, endp |-> 0]
        ELSE [val |-> IF neg THEN 0 - r.val ELSE r.val, endp |-> r.next - 1]

-----------------------------------------------------------------------------
(* Inputs: "a", "b", "ab", "aaa...a"; the passwords "p" and "q" *)

NameA == <<97>>
NameB == <<98>>
NameC == <<97, 98>>
\* a username of the greatest valid length, USERNAME_MAX - 1
NameLong == Rep(97, USERNAME_MAX - 1)

Pw1 == <<112>>
Pw2 == <<113>>
Passwords == {Pw1, Pw2}

-----------------------------------------------------------------------------
(* UserIndex: the binary search tree, smm.c *)

NULL == [nil |-> TRUE]

make_user(u, p) ==
    [user |-> [username  |-> StrNCpy(u, USERNAME_MAX - 1),
               password  |-> StrNCpy(p, PASSWORD_MAX - 1),
               followers |-> 0,
               following |-> 0],
     left |-> NULL, right |-> NULL]

\* Mutant of bst_insert: descends to the wrong side.
RECURSIVE bst_insert_wrong_side(_, _, _, _)
bst_insert_wrong_side(root, username, password, alloc) ==
    IF root = NULL
    THEN [root |-> IF alloc THEN make_user(username, password) ELSE NULL,
          ok |-> 1]
    ELSE LET c == StrCmp(username, root.user.username)
         IN  IF c = 0 THEN [root |-> root, ok |-> 0]
             ELSE IF c > 0
             THEN LET r == bst_insert_wrong_side(root.left, username, password, alloc)
                  IN  [root |-> [root EXCEPT !.left = r.root], ok |-> r.ok]
             ELSE LET r == bst_insert_wrong_side(root.right, username, password, alloc)
                  IN  [root |-> [root EXCEPT !.right = r.root], ok |-> r.ok]

\* Mutant of bst_insert: a duplicate overwrites the stored password.
RECURSIVE bst_insert_overwrites(_, _, _, _)
bst_insert_overwrites(root, username, password, alloc) ==
    IF root = NULL
    THEN [root |-> IF alloc THEN make_user(username, password) ELSE NULL,
          ok |-> 1]
    ELSE LET c == StrCmp(username, root.user.username)
         IN  IF c = 0
             THEN [root |-> [root EXCEPT !.user.password = StrNCpy(password, PASSWORD_MAX - 1)],
                   ok |-> 0]
             ELSE IF c < 0
             THEN LET r == bst_insert_overwrites(root.left, username, password, alloc)
                  IN  [root |-> [root EXCEPT !.left = r.root], ok |-> r.ok]
             ELSE LET r == bst_insert_overwrites(root.right, username, password, alloc)
                  IN  [root |-> [root EXCEPT !.right = r.root], ok |-> r.ok]

\* bst_insert returns the new root and the flag written through *ok.  alloc
\* tells whether calloc in make_user succeeds; on failure make_user returns
\* NULL and *ok is 1 all the same.
RECURSIVE bst_insert(_, _, _, _)
bst_insert(root, username, password, alloc) ==
    IF root = NULL
    THEN [root |-> IF alloc THEN make_user(username, password) ELSE NULL,
          ok |-> 1]
    ELSE LET c == StrCmp(username, root.user.username)
         IN  IF c = 0 THEN [root |-> root, ok |-> 0]
             ELSE IF c < 0
             THEN LET r == bst_insert(root.left, username, password, alloc)
                  IN  [root |-> [root EXCEPT !.left = r.root], ok |-> r.ok]
             ELSE LET r == bst_insert(root.right, username, password, alloc)
                  IN  [root |-> [root EXCEPT !.right = r.root], ok |-> r.ok]

\* bst_find returns the node found (the subtree rooted at it) or NULL.
RECURSIVE bst_find(_, _)
bst_find(root, username) ==
    IF root = NULL THEN NULL
    ELSE LET c == StrCmp(username, root.user.username)
         IN  IF c = 0 THEN root
             ELSE IF c < 0 THEN bst_find(root.left, username)
             ELSE bst_find(root.right, username)

-----------------------------------------------------------------------------
(* UserIndex: the binary search tree, DSA_MINI_PROJECT.c *)

create_user_node(u, p) ==
    [user |-> [username  |-> StrNCpy(u, USERNAME_MAX - 1),
               password  |-> StrNCpy(p, DSA_PASSWORD_MAX - 1),
               followers |-> 0,
               following |-> 0],
     left |-> NULL, right |-> NULL]

\* On allocation failure the leaf call sets *inserted = 0 and returns NULL,
\* which the callers up the recursion store in the (NULL) child link.
RECURSIVE dsa_bst_insert(_, _, _, _)
dsa_bst_insert(root, username, password, alloc) ==
    IF root = NULL
    THEN IF alloc
         THEN [root |-> create_user_node(username, password), inserted |-> 1]
         ELSE [root |-> NULL, inserted |-> 0]
    ELSE LET cmp == StrCmp(username, root.user.username)
         IN  IF cmp = 0 THEN [root |-> root, inserted |-> 0]
             ELSE IF cmp < 0
             THEN LET r == dsa_bst_insert(root.left, username, password, alloc)
                  IN  [root |-> [root EXCEPT !.left = r.root], inserted |-> r.inserted]
             ELSE LET r == dsa_bst_insert(root.right, username, password, alloc)
                  IN  [root |-> [root EXCEPT !.right = r.root], inserted |-> r.inserted]

RECURSIVE dsa_bst_find(_, _)
dsa_bst_find(root, username) ==
    IF root = NULL THEN NULL
    ELSE LET cmp == StrCmp(username, root.user.username)
         IN  IF cmp = 0 THEN root
             ELSE IF cmp < 0 THEN dsa_bst_find(root.left, username)
             ELSE dsa_bst_find(root.right, username)

\* bst_inorder_print: the usernames in the order they are printed.
RECURSIVE bst_inorder_print(_)
bst_inorder_print(root) ==
    IF root = NULL THEN <<>>
    ELSE bst_inorder_print(root.left) \o <<root.user.username>>
             \o bst_inorder_print(root.right)

-----------------------------------------------------------------------------
(* PostLog: the dynamic array, smm.c.  data holds the size stored posts;  *)
(* the cap - size slots behind them are allocated and never read.         *)
(* A Post is [id, author, content]; its timestamp is only ever printed.   *)

posts_init(initial_cap) == [size |-> 0, cap |-> initial_cap, data |-> <<>>]

\* Mutant of posts_add: the hard stop tests size > MAX_POSTS.
posts_add_past_cap(pa, p, alloc) ==
    IF pa.size > MAX_POSTS THEN [pa |-> pa, ret |-> 0]
    ELSE IF pa.size = pa.cap /\ ~alloc THEN [pa |-> pa, ret |-> 0]
    ELSE LET nc  == IF pa.cap * 2 > MAX_POSTS THEN MAX_POSTS ELSE pa.cap * 2
             cap == IF pa.size = pa.cap THEN nc ELSE pa.cap
         IN  [pa  |-> [size |-> pa.size + 1, cap |-> cap,
                       data |-> Append(pa.data, p)],
              ret |-> 1]

\* Mutant of posts_add: the array grows into a fresh zeroed block and the
\* stored posts are not copied over.
posts_add_grow_without_copy(pa, p, alloc) ==
    IF pa.size >= MAX_POSTS THEN [pa |-> pa, ret |-> 0]
    ELSE IF pa.size = pa.cap /\ ~alloc THEN [pa |-> pa, ret |-> 0]
    ELSE LET nc  == IF pa.cap * 2 > MAX_POSTS THEN MAX_POSTS ELSE pa.cap * 2
             cap == IF pa.size = pa.cap THEN nc ELSE pa.cap
             old == IF pa.size = pa.cap
                    THEN [k \in 1..pa.size |-> [id |-> 0, author |-> <<>>, content |-> <<>>]]
                    ELSE pa.data
         IN  [pa  |-> [size |-> pa.size + 1, cap |-> cap,
                       data |-> Append(old, p)],
              ret |-> 1]

\* Mutant of posts_add: the doubled capacity is not cut down to MAX_POSTS.
posts_add_unclamped(pa, p, alloc) ==
    IF pa.size >= MAX_POSTS THEN [pa |-> pa, ret |-> 0]
    ELSE IF pa.size = pa.cap /\ ~alloc THEN [pa |-> pa, ret |-> 0]
    ELSE LET nc  == pa.cap * 2
             cap == IF pa.size = pa.cap THEN nc ELSE pa.cap
         IN  [pa  |-> [size |-> pa.size + 1, cap |-> cap,
                       data |-> Append(pa.data, p)],
              ret |-> 1]

\* posts_add returns the array and the int result.  alloc tells whether
\* realloc succeeds when the array has to grow.
posts_add(pa, p, alloc) ==
    IF pa.size >= MAX_POSTS THEN [pa |-> pa, ret |-> 0]
    ELSE IF pa.size = pa.cap /\ ~alloc THEN [pa |-> pa, ret |-> 0]
    ELSE LET nc  == IF pa.cap * 2 > MAX_POSTS THEN MAX_POSTS ELSE pa.cap * 2
             cap == IF pa.size = pa.cap THEN nc ELSE pa.cap
         IN  [pa  |-> [size |-> pa.size + 1, cap |-> cap,
                       data |-> Append(pa.data, p)],
              ret |-> 1]

\* Mutant of posts_list_desc: the loop stops at i > 0 and misses data[0].
posts_list_desc_misses_oldest(pa) ==
    [k \in 1..(pa.size - 1) |-> pa.data[pa.size - k + 1]]

\* posts_list_desc: the posts in the order they are printed.
posts_list_desc(pa) == [k \in 1..pa.size |-> pa.data[pa.size - k + 1]]

-----------------------------------------------------------------------------
(* MessageQueue: the circular buffer, smm.c *)

\* The content of a slot of buf that was never written.
NoMessage == [from |-> <<>>, to |-> <<>>, content |-> <<>>, stamp |-> 0]

mq_init ==
    [buf |-> [i \in 0..(MAX_MESSAGES - 1) |-> NoMessage],
     head |-> 0, tail |-> 0, count |-> 0]

\* Mutant of mq_enqueue: a full queue overwrites its oldest message.
mq_enqueue_overwrites(q, m) ==
    IF q.count = MAX_MESSAGES
    THEN [q   |-> [buf   |-> [q.buf EXCEPT ![q.tail] = m],
                   head  |-> (q.head + 1) % MAX_MESSAGES,
                   tail  |-> (q.tail + 1) % MAX_MESSAGES,
                   count |-> q.count],
          ret |-> 1]
    ELSE [q   |-> [buf   |-> [q.buf EXCEPT ![q.tail] = m],
                   head  |-> q.head,
                   tail  |-> (q.tail + 1) % MAX_MESSAGES,
                   count |-> q.count + 1],
          ret |-> 1]

mq_enqueue(q, m) ==
    IF q.count = MAX_MESSAGES THEN [q |-> q, ret |-> 0]
    ELSE [q   |-> [buf   |-> [q.buf EXCEPT ![q.tail] = m],
                   head  |-> q.head,
                   tail  |-> (q.tail + 1) % MAX_MESSAGES,
                   count |-> q.count + 1],
          ret |-> 1]

\* Mutant of mq_dequeue: hands out the newest message, the one before tail.
mq_dequeue_newest(q) ==
    IF q.count = 0 THEN [q |-> q, ret |-> 0, out |-> NoMessage]
    ELSE [q   |-> [buf   |-> q.buf,
                   head  |-> (q.head + 1) % MAX_MESSAGES,
                   tail  |-> q.tail,
                   count |-> q.count - 1],
          ret |-> 1,
          out |-> q.buf[(q.tail + MAX_MESSAGES - 1) % MAX_MESSAGES]]

\* Mutant of mq_dequeue: head advances and count is left as it was.
mq_dequeue_keeps_count(q) ==
    IF q.count = 0 THEN [q |-> q, ret |-> 0, out |-> NoMessage]
    ELSE [q   |-> [buf   |-> q.buf,
                   head  |-> (q.head + 1) % MAX_MESSAGES,
                   tail  |-> q.tail,
                   count |-> q.count],
          ret |-> 1,
          out |-> q.buf[q.head]]

\* mq_dequeue returns the queue, the int result and the message copied to
\* *out (NoMessage standing for an *out that was left unwritten).
mq_dequeue(q) ==
    IF q.count = 0 THEN [q |-> q, ret |-> 0, out |-> NoMessage]
    ELSE [q   |-> [buf   |-> q.buf,
                   head  |-> (q.head + 1) % MAX_MESSAGES,
                   tail  |-> q.tail,
                   count |-> q.count - 1],
          ret |-> 1,
          out |-> q.buf[q.head]]

\* mq_print: the messages in the order they are printed, front to back.
mq_print(q) == [k \in 1..q.count |-> q.buf[(q.head + k - 1) % MAX_MESSAGES]]

-----------------------------------------------------------------------------
(* FollowGraph: the adjacency lists, smm.c.  g.head is the list of        *)
(* GraphUser records from the head; following and followers are the       *)
(* AdjNode lists from their heads.                                        *)

graph_init == [head |-> <<>>, user_count |-> 0]

\* graph_find returns the position in g.head of the first record with the
\* username, 0 standing for NULL.
graph_find(g, username) ==
    LET hits == {i \in 1..Len(g.head) : StrCmp(g.head[i].username, username) = 0}
    IN  IF hits = {} THEN 0 ELSE CHOOSE i \in hits : \A j \in hits : i <= j

adj_prepend(head, u, alloc) ==
    IF ~alloc THEN head ELSE <<StrNCpy(u, USERNAME_MAX - 1)>> \o head

\* Mutant of adj_has: only the node at the head is compared.
adj_has_head_only(head, u) == head # <<>> /\ StrCmp(head[1], u) = 0

adj_has(head, u) == \E i \in 1..Len(head) : StrCmp(head[i], u) = 0

\* Mutant of adj_remove: when a node matches, the node at the head is the one
\* unlinked.
adj_remove_unlinks_head(head, u) ==
    LET hits == {i \in 1..Len(head) : StrCmp(head[i], u) = 0}
    IN  IF hits = {} THEN [head |-> head, removed |-> 0]
        ELSE [head |-> Tail(head), removed |-> 1]

\* adj_remove unlinks the first node with the username.
adj_remove(head, u) ==
    LET hits == {i \in 1..Len(head) : StrCmp(head[i], u) = 0}
    IN  IF hits = {} THEN [head |-> head, removed |-> 0]
        ELSE LET k == CHOOSE i \in hits : \A j \in hits : i <= j
             IN  [head |-> SubSeq(head, 1, k - 1) \o SubSeq(head, k + 1, Len(head)),
                  removed |-> 1]

\* Mutant of graph_add_user: the user limit is tested before the lookup.
graph_add_user_limit_first(g, username, alloc) ==
    IF g.user_count >= MAX_USERS THEN [g |-> g, ret |-> 0]
    ELSE IF graph_find(g, username) # 0 THEN [g |-> g, ret |-> 1]
    ELSE IF ~alloc THEN [g |-> g, ret |-> 0]
    ELSE [g |-> [head |-> <<[username  |-> StrNCpy(username, USERNAME_MAX - 1),
                             following |-> <<>>,
                             followers |-> <<>>]>> \o g.head,
                 user_count |-> g.user_count + 1],
          ret |-> 1]

\* Mutant of graph_add_user: the user limit is tested with >.
graph_add_user_one_more(g, username, alloc) ==
    IF graph_find(g, username) # 0 THEN [g |-> g, ret |-> 1]
    ELSE IF g.user_count > MAX_USERS THEN [g |-> g, ret |-> 0]
    ELSE IF ~alloc THEN [g |-> g, ret |-> 0]
    ELSE [g |-> [head |-> <<[username  |-> StrNCpy(username, USERNAME_MAX - 1),
                             following |-> <<>>,
                             followers |-> <<>>]>> \o g.head,
                 user_count |-> g.user_count + 1],
          ret |-> 1]

graph_add_user(g, username, alloc) ==
    IF graph_find(g, username) # 0 THEN [g |-> g, ret |-> 1]
    ELSE IF g.user_count >= MAX_USERS THEN [g |-> g, ret |-> 0]
    ELSE IF ~alloc THEN [g |-> g, ret |-> 0]
    ELSE [g |-> [head |-> <<[username  |-> StrNCpy(username, USERNAME_MAX - 1),
                             following |-> <<>>,
                             followers |-> <<>>]>> \o g.head,
                 user_count |-> g.user_count + 1],
          ret |-> 1]

\* Mutant of graph_add_edge: from and to are not compared.
graph_add_edge_allows_self(g, from, to, allocA, allocB) ==
    LET A == graph_find(g, from)
        B == graph_find(g, to)
    IN  IF A = 0 \/ B = 0 THEN [g |-> g, ret |-> 0]
        ELSE LET h1 == IF ~adj_has(g.head[A].following, to)
                       THEN [g.head EXCEPT ![A].following = adj_prepend(@, to, allocA)]
                       ELSE g.head
                 h2 == IF ~adj_has(h1[B].followers, from)
                       THEN [h1 EXCEPT ![B].followers = adj_prepend(@, from, allocB)]
                       ELSE h1
             IN  [g |-> [g EXCEPT !.head = h2], ret |-> 1]

\* allocA and allocB tell whether the malloc of the first and of the second
\* adj_prepend succeeds (when that call is made).
graph_add_edge(g, from, to, allocA, allocB) ==
    LET A == graph_find(g, from)
        B == graph_find(g, to)
    IN  IF A = 0 \/ B = 0 \/ StrCmp(from, to) = 0 THEN [g |-> g, ret |-> 0]
        ELSE LET h1 == IF ~adj_has(g.head[A].following, to)
                       THEN [g.head EXCEPT ![A].following = adj_prepend(@, to, allocA)]
                       ELSE g.head
                 h2 == IF ~adj_has(h1[B].followers, from)
                       THEN [h1 EXCEPT ![B].followers = adj_prepend(@, from, allocB)]
                       ELSE h1
             IN  [g |-> [g EXCEPT !.head = h2], ret |-> 1]

\* Mutant of graph_remove_edge: the followers list of `to` is left alone.
graph_remove_edge_one_side(g, from, to) ==
    LET A == graph_find(g, from)
        B == graph_find(g, to)
    IN  IF A = 0 \/ B = 0 THEN [g |-> g, ret |-> 0]
        ELSE LET r1 == adj_remove(g.head[A].following, to)
                 h1 == [g.head EXCEPT ![A].following = r1.head]
             IN  [g   |-> [g EXCEPT !.head = h1],
                  ret |-> IF r1.removed = 1 THEN 1 ELSE 0]

graph_remove_edge(g, from, to) ==
    LET A == graph_find(g, from)
        B == graph_find(g, to)
    IN  IF A = 0 \/ B = 0 THEN [g |-> g, ret |-> 0]
        ELSE LET r1 == adj_remove(g.head[A].following, to)
                 h1 == [g.head EXCEPT ![A].following = r1.head]
                 r2 == adj_remove(h1[B].followers, from)
                 h2 == [h1 EXCEPT ![B].followers = r2.head]
             IN  [g   |-> [g EXCEPT !.head = h2],
                  ret |-> IF r1.removed = 1 /\ r2.removed = 1 THEN 1 ELSE 0]

-----------------------------------------------------------------------------
(* PostLog: the dynamic array, DSA_MINI_PROJECT.c.  init_app leaves data  *)
(* allocated or ends the program, so push_post_array never finds it NULL. *)

init_post_array == [size |-> 0, capacity |-> INITIAL_POST_CAP, data |-> <<>>]

push_post_array(pa, p, alloc) ==
    IF pa.size >= pa.capacity /\ ~alloc THEN [pa |-> pa, ret |-> ERR_ALLOC]
    ELSE [pa  |-> [size     |-> pa.size + 1,
                   capacity |-> IF pa.size >= pa.capacity
                                THEN pa.capacity * 2 ELSE pa.capacity,
                   data     |-> Append(pa.data, p)],
          ret |-> ERR_OK]

\* list_published: the posts in the order they are printed.
list_published(pa) == [k \in 1..pa.size |-> pa.data[pa.size - k + 1]]

validate_content(s) ==
    IF Len(s) = 0 THEN ERR_INVALID
    ELSE IF Len(s) >= DSA_CONTENT_MAX THEN ERR_TOO_LONG
    ELSE ERR_OK

-----------------------------------------------------------------------------
(* ScheduleList: the sorted singly-linked list, DSA_MINI_PROJECT.c.  A    *)
(* ScheduledPost is [id, author, content, scheduled_time].                *)

\* Mutant of slist_scan: stops in front of the nodes of equal time.
RECURSIVE slist_scan_strict(_, _, _)
slist_scan_strict(list, cur, t) ==
    IF cur < Len(list) /\ list[cur + 1].scheduled_time < t
    THEN slist_scan_strict(list, cur + 1, t)
    ELSE cur

\* The node the while loop of schedule_post_add stops at, starting at cur.
RECURSIVE slist_scan(_, _, _)
slist_scan(list, cur, t) ==
    IF cur < Len(list) /\ list[cur + 1].scheduled_time <= t
    THEN slist_scan(list, cur + 1, t)
    ELSE cur

schedule_post_add(sl, sp, alloc) ==
    IF ~alloc THEN [sl |-> sl, ret |-> ERR_ALLOC]
    ELSE IF sl = <<>> \/ sp.scheduled_time < sl[1].scheduled_time
    THEN [sl |-> <<sp>> \o sl, ret |-> ERR_OK]
    ELSE LET cur == slist_scan(sl, 1, sp.scheduled_time)
         IN  [sl  |-> SubSeq(sl, 1, cur) \o <<sp>> \o SubSeq(sl, cur + 1, Len(sl)),
              ret |-> ERR_OK]

\* Mutant of slist_pop_loop: a post scheduled for exactly now is not due.
RECURSIVE slist_pop_loop_strict(_, _, _, _)
slist_pop_loop_strict(sl, now, out, buf_len) ==
    IF sl # <<>> /\ sl[1].scheduled_time < now /\ Len(out) < buf_len
    THEN slist_pop_loop_strict(Tail(sl), now, Append(out, sl[1]), buf_len)
    ELSE [sl |-> sl, out |-> out, taken |-> Len(out)]

\* The loop of slist_pop_due: out is out_buf[0..taken-1].
RECURSIVE slist_pop_loop(_, _, _, _)
slist_pop_loop(sl, now, out, buf_len) ==
    IF sl # <<>> /\ sl[1].scheduled_time <= now /\ Len(out) < buf_len
    THEN slist_pop_loop(Tail(sl), now, Append(out, sl[1]), buf_len)
    ELSE [sl |-> sl, out |-> out, taken |-> Len(out)]

slist_pop_due(sl, now, buf_len) ==
    IF buf_len <= 0 THEN [sl |-> sl, out |-> <<>>, taken |-> 0]
    ELSE slist_pop_loop(sl, now, <<>>, buf_len)

-----------------------------------------------------------------------------
(* MessageQueue: the linked queue, DSA_MINI_PROJECT.c.  list is the chain *)
(* of MQNode from front to rear.                                          *)

init_mq == [list |-> <<>>, size |-> 0]

dsa_mq_enqueue(q, m, alloc) ==
    IF ~alloc THEN [q |-> q, ret |-> ERR_ALLOC]
    ELSE [q |-> [list |-> Append(q.list, m), size |-> q.size + 1], ret |-> ERR_OK]

\* Mutant of dsa_mq_dequeue: unlinks the rear node instead of the front one.
dsa_mq_dequeue_rear(q) ==
    IF q.list = <<>> THEN [q |-> q, ret |-> 0, out |-> NoMessage]
    ELSE [q |-> [list |-> SubSeq(q.list, 1, Len(q.list) - 1), size |-> q.size - 1],
          ret |-> 1, out |-> q.list[Len(q.list)]]

dsa_mq_dequeue(q) ==
    IF q.list = <<>> THEN [q |-> q, ret |-> 0, out |-> NoMessage]
    ELSE [q |-> [list |-> Tail(q.list), size |-> q.size - 1],
          ret |-> 1, out |-> Head(q.list)]

-----------------------------------------------------------------------------
(* Publishing, DSA_MINI_PROJECT.c *)

\* publish_post with next_post_id handing out the same id again
publish_post_same_id(pa, pid, author, content, alloc) ==
    IF validate_content(content) # ERR_OK
    THEN [pa |-> pa, pid |-> pid, ret |-> ERR_INVALID]
    ELSE LET p == [id      |-> pid,
                   author  |-> StrNCpy(author, USERNAME_MAX - 1),
                   content |-> StrNCpy(content, DSA_CONTENT_MAX - 1)]
             r == push_post_array(pa, p, alloc)
         IN  [pa |-> r.pa, pid |-> pid, ret |-> r.ret]

\* publish_post on the PostLog pa and the counter pid of next_post_id: the
\* id is taken before the append is tried.
publish_post(pa, pid, author, content, alloc) ==
    IF validate_content(content) # ERR_OK
    THEN [pa |-> pa, pid |-> pid, ret |-> ERR_INVALID]
    ELSE LET p == [id      |-> pid,
                   author  |-> StrNCpy(author, USERNAME_MAX - 1),
                   content |-> StrNCpy(content, DSA_CONTENT_MAX - 1)]
             r == push_post_array(pa, p, alloc)
         IN  [pa |-> r.pa, pid |-> pid + 1, ret |-> r.ret]

\* The for loop of process_scheduled over buf[i..taken-1] (buf is 1-based
\* here); alloc tells whether every realloc of the loop succeeds.
RECURSIVE process_loop(_, _, _, _, _)
process_loop(pa, pid, buf, i, alloc) ==
    IF i > Len(buf) THEN [pa |-> pa, pid |-> pid]
    ELSE LET r == publish_post(pa, pid, buf[i].author, buf[i].content, alloc)
         IN  process_loop(r.pa, r.pid, buf, i + 1, alloc)

\* process_scheduled returns the new ScheduleList, PostLog and id counter,
\* and buf (the posts slist_pop_due handed over).
process_scheduled(sl, pa, pid, now, alloc) ==
    LET popped == slist_pop_due(sl, now, POP_BUF_LEN)
    IN  IF popped.taken <= 0
        THEN [sl |-> sl, pa |-> pa, pid |-> pid, buf |-> <<>>]
        ELSE LET r == process_loop(pa, pid, popped.out, 1, alloc)
             IN  [sl |-> popped.sl, pa |-> r.pa, pid |-> r.pid, buf |-> popped.out]

-----------------------------------------------------------------------------
(* Initial state: app_init (smm.c) and init_app (DSA_MINI_PROJECT.c) *)

\* current == NULL: no session.  current points to a UserNode of users_bst,
\* which is never freed or moved; the model keeps the node's username.
NoUser == <<>>

Init ==
    /\ users_bst = NULL
    /\ current = NoUser
    /\ posts = posts_init(SMM_INITIAL_CAP)
    /\ mq = mq_init
    /\ graph = graph_init
    /\ admin = [is_registered |-> 0, username |-> <<>>, password |-> <<>>]
    /\ current_admin = FALSE
    /\ max_users = MAX_USERS
    /\ max_posts = MAX_POSTS
    /\ max_messages = MAX_MESSAGES
    /\ smm_pid = 1
    /\ d_users = NULL
    /\ d_published = init_post_array
    /\ d_scheduled = <<>>
    /\ d_mq = init_mq
    /\ d_pid = 1
    /\ clock = 0
    /\ last = [op |-> "init"]
    /\ hist = [keys |-> {}, d_keys |-> {},
               enq_calls |-> 0, sent |-> <<>>, delivered |-> <<>>,
               appended |-> <<>>, d_appended |-> <<>>,
               allocs |-> <<>>, sched_calls |-> 0]

-----------------------------------------------------------------------------
(* SpecBst: the two trees under bst_insert calls *)

BstNames == {NameA, NameB, NameLong}
\* names looked up: the inserted ones and one that is never inserted
ProbeNames == BstNames \cup {NameC}

BstInsert(u, p) ==
    LET r == bst_insert(users_bst, u, p, TRUE)
    IN  /\ users_bst' = r.root
        /\ last' = [op |-> "bst_insert", username |-> u, ok |-> r.ok]
        /\ hist' = [hist EXCEPT !.keys = IF r.ok = 1 THEN @ \cup {u} ELSE @]
        /\ UNCHANGED <<current, posts, mq, graph, admin, current_admin,
                       max_users, max_posts, max_messages, smm_pid, dsaVars>>

DsaBstInsert(u, p) ==
    LET r == dsa_bst_insert(d_users, u, p, TRUE)
    IN  /\ d_users' = r.root
        /\ last' = [op |-> "dsa_bst_insert", username |-> u, ok |-> r.inserted]
        /\ hist' = [hist EXCEPT !.d_keys = IF r.inserted = 1 THEN @ \cup {u} ELSE @]
        /\ UNCHANGED <<smmVars, d_published, d_scheduled, d_mq, d_pid, clock>>

NextBst ==
    \/ \E u \in BstNames, p \in Passwords : BstInsert(u, p)
    \/ \E u \in BstNames, p \in Passwords : DsaBstInsert(u, p)

SpecBst == Init /\ [][NextBst]_vars

StrictlyAscending(seq) ==
    \A i \in 1..(Len(seq) - 1) : StrCmp(seq[i], seq[i + 1]) < 0

Range(seq) == {seq[i] : i \in 1..Len(seq)}

\* C8: after any sequence of inserts of valid usernames (shorter than
\* USERNAME_MAX, as valid_name and validate_username_strict demand), in either
\* tree find returns the node of a username exactly when an insert of that
\* username reported success, and the in-order walk yields exactly those
\* usernames, each once, in strictly ascending strcmp order.
C8_FindAndInorder ==
    /\ \A u \in ProbeNames :
          /\ (bst_find(users_bst, u) # NULL) <=> (u \in hist.keys)
          /\ bst_find(users_bst, u) # NULL => bst_find(users_bst, u).user.username = u
          /\ (dsa_bst_find(d_users, u) # NULL) <=> (u \in hist.d_keys)
          /\ dsa_bst_find(d_users, u) # NULL => dsa_bst_find(d_users, u).user.username = u
    /\ StrictlyAscending(bst_inorder_print(users_bst))
    /\ Range(bst_inorder_print(users_bst)) = hist.keys
    /\ Len(bst_inorder_print(users_bst)) = Cardinality(hist.keys)
    /\ StrictlyAscending(bst_inorder_print(d_users))
    /\ Range(bst_inorder_print(d_users)) = hist.d_keys
    /\ Len(bst_inorder_print(d_users)) = Cardinality(hist.d_keys)

\* Both trees hold all three names, the smm.c one with the longest name at
\* the root and a node on either side of it.
C8_Witness ==
    /\ hist.keys = BstNames
    /\ hist.d_keys = BstNames
    /\ users_bst # NULL
    /\ users_bst.user.username = NameLong
    /\ users_bst.left # NULL
    /\ users_bst.right # NULL

\* C9: an insert of a username that is already in the tree reports
\* non-insertion and leaves the tree as it was: the same nodes in the same
\* shape, with the stored password and counters of every node.
C9_DuplicateInsert ==
    [][ /\ (last'.op = "bst_insert" /\ bst_find(users_bst, last'.username) # NULL)
            => (last'.ok = 0 /\ users_bst' = users_bst)
        /\ (last'.op = "dsa_bst_insert" /\ dsa_bst_find(d_users, last'.username) # NULL)
            => (last'.ok = 0 /\ d_users' = d_users) ]_vars

\* A duplicate insert was refused below the root of a tree of three nodes.
C9_Witness ==
    /\ last.op = "bst_insert"
    /\ last.ok = 0
    /\ Cardinality(hist.keys) = 3
    /\ users_bst.user.username # last.username

-----------------------------------------------------------------------------
(* SpecMq: the circular MessageQueue under mq_enqueue and mq_dequeue      *)

\* The number of mq_enqueue calls of a run, failed ones included: enough for
\* tail and head to wrap around.
MaxEnqCalls == 22

\* The message of the n-th mq_enqueue call: its timestamp tells it from all
\* others.
Msg(n) == [from |-> NameA, to |-> NameB, content |-> <<104>>, stamp |-> n]

MqEnqueue ==
    /\ hist.enq_calls < MaxEnqCalls
    /\ LET m == Msg(hist.enq_calls + 1)
           r == mq_enqueue(mq, m)
       IN  /\ mq' = r.q
           /\ last' = [op |-> "mq_enqueue", m |-> m, ret |-> r.ret]
           /\ hist' = [hist EXCEPT !.enq_calls = @ + 1,
                                   !.sent = IF r.ret = 1 THEN Append(@, m) ELSE @]
    /\ UNCHANGED <<users_bst, current, posts, graph, admin, current_admin,
                   max_users, max_posts, max_messages, smm_pid, dsaVars>>

MqDequeue ==
    /\ LET r == mq_dequeue(mq)
       IN  /\ mq' = r.q
           /\ last' = [op |-> "mq_dequeue", out |-> r.out, ret |-> r.ret]
           /\ hist' = [hist EXCEPT
                         !.delivered = IF r.ret = 1 THEN Append(@, r.out) ELSE @]
    /\ UNCHANGED <<users_bst, current, posts, graph, admin, current_admin,
                   max_users, max_posts, max_messages, smm_pid, dsaVars>>

NextMq == MqEnqueue \/ MqDequeue

SpecMq == Init /\ [][NextMq]_vars

\* C4: the messages handed out by successful mq_dequeue calls are, in order,
\* the first messages accepted by mq_enqueue: each successful dequeue returns
\* the oldest accepted message not yet handed out, so every message comes out
\* once and in enqueue order, whether or not head and tail have wrapped.
C4_FifoOrder ==
    /\ Len(hist.delivered) <= Len(hist.sent)
    /\ hist.delivered = SubSeq(hist.sent, 1, Len(hist.delivered))
    /\ (last.op = "mq_dequeue" /\ last.ret = 1)
          => last.out = hist.sent[Len(hist.delivered)]

\* More messages than the buffer has slots went in and came out: the last
\* dequeue returned a message stored after tail wrapped, read after head
\* wrapped.
C4_Witness ==
    /\ last.op = "mq_dequeue"
    /\ last.ret = 1
    /\ Len(hist.delivered) > MAX_MESSAGES
    /\ mq.head < mq.tail

\* C5: mq_enqueue fails exactly when count is the capacity, mq_dequeue fails
\* exactly when count is 0, and a failing call leaves the queue (head, tail,
\* count and every slot of buf) as it was.
C5_FailExactlyWhenFullOrEmpty ==
    [][ /\ last'.op = "mq_enqueue" =>
              /\ (last'.ret = 0) <=> (mq.count = MAX_MESSAGES)
              /\ last'.ret = 0 => mq' = mq
        /\ last'.op = "mq_dequeue" =>
              /\ (last'.ret = 0) <=> (mq.count = 0)
              /\ last'.ret = 0 => mq' = mq ]_vars

\* An enqueue was refused by a full queue whose head is not at slot 0.
C5_Witness ==
    /\ last.op = "mq_enqueue"
    /\ last.ret = 0
    /\ mq.count = MAX_MESSAGES
    /\ mq.head # 0

\* C30: in every reachable state of the circular MessageQueue count is between
\* 0 and MAX_MESSAGES, head and tail are slots of buf, tail is head + count
\* modulo MAX_MESSAGES, and the count slots from head, as mq_print walks them,
\* hold exactly the pending messages: those accepted and not yet dequeued,
\* oldest first.
C30_CircularInvariant ==
    /\ mq.count \in 0..MAX_MESSAGES
    /\ mq.head \in 0..(MAX_MESSAGES - 1)
    /\ mq.tail \in 0..(MAX_MESSAGES - 1)
    /\ mq.tail = (mq.head + mq.count) % MAX_MESSAGES
    /\ mq_print(mq) = SubSeq(hist.sent, Len(hist.delivered) + 1, Len(hist.sent))

\* C30 witness: messages are pending in a buffer whose tail has wrapped
\* around while head has not, after enqueues and dequeues.
C30_Witness ==
    /\ mq.tail < mq.head
    /\ mq.count > 1
    /\ Len(hist.delivered) > 0
    /\ mq_print(mq)[mq.count] = hist.sent[Len(hist.sent)]

-----------------------------------------------------------------------------
(* SpecMqPair: the circular MessageQueue of smm.c and the linked            *)
(* MessageQueue of DSA_MINI_PROJECT.c given the same calls, the malloc of   *)
(* the linked queue succeeding                                              *)

MqEnqueueBoth ==
    /\ hist.enq_calls < MaxEnqCalls
    /\ LET m == Msg(hist.enq_calls + 1)
           r == mq_enqueue(mq, m)
           dr == dsa_mq_enqueue(d_mq, m, TRUE)
       IN  /\ mq' = r.q
           /\ d_mq' = dr.q
           /\ last' = [op |-> "mq_enqueue", m |-> m, ret |-> r.ret, d_ret |-> dr.ret]
           /\ hist' = [hist EXCEPT !.enq_calls = @ + 1,
                                   !.sent = IF r.ret = 1 THEN Append(@, m) ELSE @]
    /\ UNCHANGED <<users_bst, current, posts, graph, admin, current_admin,
                   max_users, max_posts, max_messages, smm_pid,
                   d_users, d_published, d_scheduled, d_pid, clock>>

MqDequeueBoth ==
    /\ LET r == mq_dequeue(mq)
           dr == dsa_mq_dequeue(d_mq)
       IN  /\ mq' = r.q
           /\ d_mq' = dr.q
           /\ last' = [op |-> "mq_dequeue", out |-> r.out, ret |-> r.ret,
                       d_out |-> dr.out, d_ret |-> dr.ret]
           /\ hist' = [hist EXCEPT
                         !.delivered = IF r.ret = 1 THEN Append(@, r.out) ELSE @]
    /\ UNCHANGED <<users_bst, current, posts, graph, admin, current_admin,
                   max_users, max_posts, max_messages, smm_pid,
                   d_users, d_published, d_scheduled, d_pid, clock>>

NextMqPair == MqEnqueueBoth \/ MqDequeueBoth

SpecMqPair == Init /\ [][NextMqPair]_vars

\* C26: as long as no enqueue was attempted on a circular queue holding
\* MAX_MESSAGES messages (every mq_enqueue call so far was accepted by it) and
\* no allocation failed, the two queues answer every call alike: both enqueues
\* report success (1 in smm.c, ERR_OK in DSA_MINI_PROJECT.c), both dequeues
\* return the same result and, when it is 1, the same message, and the same
\* messages are pending in the same order.
C26_QueuesEquivalent ==
    Len(hist.sent) = hist.enq_calls =>
        /\ last.op = "mq_enqueue" => (last.ret = 1 /\ last.d_ret = ERR_OK)
        /\ last.op = "mq_dequeue" =>
              /\ last.ret = last.d_ret
              /\ last.ret = 1 => last.out = last.d_out
        /\ mq_print(mq) = d_mq.list
        /\ mq.count = d_mq.size

\* C26 witness: more messages than the circular buffer has slots went through
\* both queues, none refused; the last call was a successful dequeue and a
\* message is still pending.
C26_Witness ==
    /\ Len(hist.sent) = hist.enq_calls
    /\ last.op = "mq_dequeue"
    /\ last.ret = 1
    /\ last.out = last.d_out
    /\ Len(hist.delivered) > MAX_MESSAGES
    /\ mq.count >= 1

-----------------------------------------------------------------------------
(* SpecSlist: the ScheduleList under schedule_post_add and slist_pop_due  *)

\* The number of posts scheduled in a run, and the latest release time.
MaxSched == 4
MaxTime == 2

Times == 1..MaxTime
Nows == 0..MaxTime
\* buf_len of slist_pop_due: none, fewer than can be due, and the buffer
\* length process_scheduled passes
PopCounts == {-1, 0, 1, 2, POP_BUF_LEN}

\* The ScheduledPost schedule_post_ui builds (its id from next_post_id) and
\* the schedule_post_add call that stores it.
SlistAdd(t) ==
    /\ d_pid <= MaxSched
    /\ LET sp == [id |-> d_pid, author |-> NameA, content |-> <<104>>,
                  scheduled_time |-> t]
           r == schedule_post_add(d_scheduled, sp, TRUE)
       IN  /\ d_scheduled' = r.sl
           /\ d_pid' = d_pid + 1
           /\ last' = [op |-> "schedule_post_add", sp |-> sp, ret |-> r.ret]
    /\ UNCHANGED <<smmVars, d_users, d_published, d_mq, clock, hist>>

SlistPopDue(now, buf_len) ==
    /\ LET r == slist_pop_due(d_scheduled, now, buf_len)
       IN  /\ d_scheduled' = r.sl
           /\ last' = [op |-> "slist_pop_due", now |-> now, buf_len |-> buf_len,
                       out |-> r.out, taken |-> r.taken]
    /\ UNCHANGED <<smmVars, d_users, d_published, d_mq, d_pid, clock, hist>>

NextSlist ==
    \/ \E t \in Times : SlistAdd(t)
    \/ \E now \in Nows, n \in PopCounts : SlistPopDue(now, n)

SpecSlist == Init /\ [][NextSlist]_vars

\* The number of nodes of the whole list that are due at now.
DueCount(sl, now) == Cardinality({i \in 1..Len(sl) : sl[i].scheduled_time <= now})

TimesAscending(sl) ==
    \A i \in 1..(Len(sl) - 1) : sl[i].scheduled_time <= sl[i + 1].scheduled_time

\* C6: slist_pop_due(now, maxCount) hands over exactly the first
\* min(d, maxCount) nodes of the list (none for maxCount <= 0), in list order
\* and so in ascending release time, d being the number of nodes of the list
\* with scheduled_time <= now; the other nodes stay, in their order, and with
\* d = 0 nothing is returned and the list is as it was.
C6_PopDue ==
    [][ last'.op = "slist_pop_due" =>
          LET d == DueCount(d_scheduled, last'.now)
              m == Min(d, last'.buf_len)
              n == IF m < 0 THEN 0 ELSE m
          IN  /\ last'.out = SubSeq(d_scheduled, 1, n)
              /\ last'.taken = n
              /\ TimesAscending(last'.out)
              /\ d_scheduled' = SubSeq(d_scheduled, n + 1, Len(d_scheduled))
              /\ d = 0 => (last'.out = <<>> /\ d_scheduled' = d_scheduled) ]_vars

\* A pop limited to two posts took two posts of different release times and
\* left a post behind that is due as well.
C6_Witness ==
    /\ last.op = "slist_pop_due"
    /\ last.buf_len = 2
    /\ last.taken = 2
    /\ last.out[1].scheduled_time < last.out[2].scheduled_time
    /\ d_scheduled # <<>>
    /\ d_scheduled[1].scheduled_time <= last.now

\* C7: the ScheduleList is in non-decreasing scheduled_time from head to
\* tail, and of two nodes with the same scheduled_time the one added earlier
\* (the one with the smaller id) is nearer the head.
C7_SortedStable ==
    \A i, j \in 1..Len(d_scheduled) :
        i < j =>
            /\ d_scheduled[i].scheduled_time <= d_scheduled[j].scheduled_time
            /\ d_scheduled[i].scheduled_time = d_scheduled[j].scheduled_time
                  => d_scheduled[i].id < d_scheduled[j].id

\* After a pop, the list holds three posts, two of them of the same time,
\* the last one added going in before a later post.
C7_Witness ==
    /\ Len(d_scheduled) = 3
    /\ d_pid = MaxSched + 1
    /\ d_scheduled[1].scheduled_time = d_scheduled[2].scheduled_time
    /\ d_scheduled[3].id < d_scheduled[2].id

-----------------------------------------------------------------------------
(* SpecPosts: the two PostLogs under appends                              *)

\* The number of posts_add calls of a run (one more than the hard cap) and
\* of publish_post calls (one more than the initial capacity, so that the
\* array grows).
MaxAddCalls == 31
MaxPublish == 17

\* posts_add with the Post ui_create_post builds: its id from next_post_id.
PostsAdd ==
    /\ smm_pid <= MaxAddCalls
    /\ LET p == [id |-> smm_pid, author |-> NameA, content |-> <<104>>]
           r == posts_add(posts, p, TRUE)
       IN  /\ posts' = r.pa
           /\ smm_pid' = smm_pid + 1
           /\ last' = [op |-> "posts_add", p |-> p, ret |-> r.ret]
           /\ hist' = [hist EXCEPT
                         !.appended = IF r.ret = 1 THEN Append(@, p) ELSE @]
    /\ UNCHANGED <<users_bst, current, mq, graph, admin, current_admin,
                   max_users, max_posts, max_messages, dsaVars>>

DsaPublish ==
    /\ d_pid <= MaxPublish
    /\ LET r == publish_post(d_published, d_pid, NameA, <<104>>, TRUE)
       IN  /\ d_published' = r.pa
           /\ d_pid' = r.pid
           /\ last' = [op |-> "publish_post", ret |-> r.ret]
           /\ hist' = [hist EXCEPT
                         !.d_appended = IF r.ret = ERR_OK
                                        THEN Append(@, [id |-> d_pid, author |-> NameA,
                                                        content |-> <<104>>])
                                        ELSE @]
    /\ UNCHANGED <<smmVars, d_users, d_scheduled, d_mq, clock>>

NextPosts == PostsAdd \/ DsaPublish

SpecPosts == Init /\ [][NextPosts]_vars

Reverse(seq) == [k \in 1..Len(seq) |-> seq[Len(seq) - k + 1]]

\* C10: after N successful appends the descending listing (posts_list_desc,
\* list_published) yields exactly those N posts, newest first, in the exact
\* reverse of the order they were appended in, capacity growth or not.
C10_ListDescending ==
    /\ posts_list_desc(posts) = Reverse(hist.appended)
    /\ list_published(d_published) = Reverse(hist.d_appended)

\* Both arrays have grown: the smm.c one twice (8 to 16 to MAX_POSTS), the
\* other one once, and posts were appended after the growth.
C10_Witness ==
    /\ posts.cap = MAX_POSTS
    /\ posts.size > 2 * SMM_INITIAL_CAP
    /\ d_published.capacity = 2 * INITIAL_POST_CAP
    /\ d_published.size > INITIAL_POST_CAP

\* C11: posts_add called when the log already holds MAX_POSTS posts returns
\* 0 and leaves size, cap and every stored post as they were.
C11_AddBeyondCapFails ==
    [][ (last'.op = "posts_add" /\ posts.size >= MAX_POSTS)
            => /\ last'.ret = 0
               /\ posts'.size = posts.size
               /\ posts'.cap = posts.cap
               /\ posts'.data = posts.data ]_vars

\* A posts_add was refused by a log holding MAX_POSTS posts, all of them the
\* posts appended before.
C11_Witness ==
    /\ last.op = "posts_add"
    /\ last.ret = 0
    /\ last.p.id = MAX_POSTS + 1
    /\ posts.size = MAX_POSTS
    /\ posts.data = hist.appended

IsPrefix(s, t) == Len(s) <= Len(t) /\ SubSeq(t, 1, Len(s)) = s

\* C24: the PostLog is append-only in both programs: across every step the
\* posts stored before it are a prefix of the posts stored after it, so none
\* is removed, reordered or modified, also when the array grows.
C24_AppendOnly ==
    [][ /\ IsPrefix(posts.data, posts'.data)
        /\ IsPrefix(d_published.data, d_published'.data) ]_vars

\* C24 witness: both arrays have grown beyond their initial capacity and hold
\* more posts than that capacity.
C24_Witness ==
    /\ posts.cap > SMM_INITIAL_CAP
    /\ posts.size > SMM_INITIAL_CAP
    /\ posts.data = hist.appended
    /\ d_published.capacity > INITIAL_POST_CAP
    /\ d_published.size > INITIAL_POST_CAP
    /\ d_published.data = hist.d_appended

-----------------------------------------------------------------------------
(* SpecGraph: the FollowGraph under graph_add_user, graph_add_edge and    *)
(* graph_remove_edge, every allocation succeeding                         *)

\* Usernames as the callers pass them: shorter than USERNAME_MAX.
GraphNames == {NameA, NameB, NameLong}

GraphAddUser(u) ==
    /\ LET r == graph_add_user(graph, u, TRUE)
       IN  /\ graph' = r.g
           /\ last' = [op |-> "graph_add_user", username |-> u, ret |-> r.ret]
    /\ UNCHANGED <<users_bst, current, posts, mq, admin, current_admin,
                   max_users, max_posts, max_messages, smm_pid, dsaVars, hist>>

GraphAddEdge(from, to) ==
    /\ LET r == graph_add_edge(graph, from, to, TRUE, TRUE)
       IN  /\ graph' = r.g
           /\ last' = [op |-> "graph_add_edge", from |-> from, to |-> to,
                       ret |-> r.ret]
    /\ UNCHANGED <<users_bst, current, posts, mq, admin, current_admin,
                   max_users, max_posts, max_messages, smm_pid, dsaVars, hist>>

GraphRemoveEdge(from, to) ==
    /\ LET r == graph_remove_edge(graph, from, to)
       IN  /\ graph' = r.g
           /\ last' = [op |-> "graph_remove_edge", from |-> from, to |-> to,
                       ret |-> r.ret]
    /\ UNCHANGED <<users_bst, current, posts, mq, admin, current_admin,
                   max_users, max_posts, max_messages, smm_pid, dsaVars, hist>>

NextGraph ==
    \/ \E u \in GraphNames : GraphAddUser(u)
    \/ \E from, to \in GraphNames : GraphAddEdge(from, to)
    \/ \E from, to \in GraphNames : GraphRemoveEdge(from, to)

SpecGraph == Init /\ [][NextGraph]_vars

\* C2: for all users A and B of the graph, B is in the following list of A
\* if and only if A is in the followers list of B.
C2_MirrorEdges ==
    \A a, b \in 1..Len(graph.head) :
        adj_has(graph.head[a].following, graph.head[b].username)
            <=> adj_has(graph.head[b].followers, graph.head[a].username)

\* An edge was removed from a graph of three users in which a user still
\* follows two others and another edge points back.
C2_Witness ==
    /\ last.op = "graph_remove_edge"
    /\ last.ret = 1
    /\ Len(graph.head) = 3
    /\ \E a \in 1..3 :
          /\ Len(graph.head[a].following) = 2
          /\ Len(graph.head[a].followers) = 1

\* The username is that of a GraphUser record of g.
InGraph(g, u) == \E i \in 1..Len(g.head) : g.head[i].username = u

\* C12: graph_add_edge(from, to) returns 0 and leaves the graph (every
\* following and followers list) as it was when from equals to, or when from
\* or to is not a user of the graph.
C12_AddEdgeRejects ==
    [][ ( /\ last'.op = "graph_add_edge"
          /\ \/ last'.from = last'.to
             \/ ~InGraph(graph, last'.from)
             \/ ~InGraph(graph, last'.to) )
            => (last'.ret = 0 /\ graph' = graph) ]_vars

\* A self-follow was refused for a user of the graph who follows someone and
\* is followed by someone else.
C12_Witness ==
    /\ last.op = "graph_add_edge"
    /\ last.ret = 0
    /\ last.from = last.to
    /\ \E a \in 1..Len(graph.head) :
          /\ graph.head[a].username = last.from
          /\ graph.head[a].following # <<>>
          /\ graph.head[a].followers # <<>>
          /\ graph.head[a].following # graph.head[a].followers

\* No username occurs twice in the list.
NoDuplicates(list) ==
    \A i, j \in 1..Len(list) : i # j => list[i] # list[j]

\* The edge from -> to is in g: to is in the following list of from and from
\* is in the followers list of to.
EdgePresent(g, from, to) ==
    \E a, b \in 1..Len(g.head) :
        /\ g.head[a].username = from
        /\ g.head[b].username = to
        /\ \E i \in 1..Len(g.head[a].following) : g.head[a].following[i] = to
        /\ \E i \in 1..Len(g.head[b].followers) : g.head[b].followers[i] = from

\* C13: after every graph operation no following list and no followers list
\* holds a username twice, and a graph_add_edge(from, to) for an edge that is
\* already present returns 1 and leaves the graph as it was.
C13_NoDuplicateEdges ==
    [][ /\ \A a \in 1..Len(graph'.head) :
              /\ NoDuplicates(graph'.head[a].following)
              /\ NoDuplicates(graph'.head[a].followers)
        /\ (last'.op = "graph_add_edge" /\ EdgePresent(graph, last'.from, last'.to))
              => (last'.ret = 1 /\ graph' = graph) ]_vars

\* An edge was added again while it was not the newest of its lists: the
\* target is in the following list behind another user, the source is in the
\* target's followers list behind another user.
C13_Witness ==
    /\ last.op = "graph_add_edge"
    /\ last.ret = 1
    /\ \E a, b \in 1..Len(graph.head) :
          /\ graph.head[a].username = last.from
          /\ graph.head[b].username = last.to
          /\ Len(graph.head[a].following) = 2
          /\ graph.head[a].following[2] = last.to
          /\ Len(graph.head[b].followers) = 2
          /\ graph.head[b].followers[2] = last.from

\* The list without the entries equal to u, the others in their order.
Without(list, u) == SelectSeq(list, LAMBDA x : x # u)

\* C14: in a graph reached without allocation failure graph_remove_edge(from,
\* to) returns 1 if and only if the edge from -> to was present; then to is no
\* longer in the following list of from, from is no longer in the followers
\* list of to, and every other entry of every list is where it was; when it
\* returns 0 the graph is as it was (so removing the same edge again fails).
C14_RemoveEdge ==
    [][ last'.op = "graph_remove_edge" =>
          /\ (last'.ret = 1) <=> EdgePresent(graph, last'.from, last'.to)
          /\ last'.ret = 1 =>
                /\ ~EdgePresent(graph', last'.from, last'.to)
                /\ graph'.user_count = graph.user_count
                /\ Len(graph'.head) = Len(graph.head)
                /\ \A i \in 1..Len(graph.head) :
                      /\ graph'.head[i].username = graph.head[i].username
                      /\ graph'.head[i].following =
                            IF graph.head[i].username = last'.from
                            THEN Without(graph.head[i].following, last'.to)
                            ELSE graph.head[i].following
                      /\ graph'.head[i].followers =
                            IF graph.head[i].username = last'.to
                            THEN Without(graph.head[i].followers, last'.from)
                            ELSE graph.head[i].followers
          /\ last'.ret = 0 => graph' = graph ]_vars

\* An edge was removed from two lists of two entries: the source still
\* follows one user, the target still has one follower and follows someone.
C14_Witness ==
    /\ last.op = "graph_remove_edge"
    /\ last.ret = 1
    /\ ~EdgePresent(graph, last.from, last.to)
    /\ \E a, b \in 1..Len(graph.head) :
          /\ graph.head[a].username = last.from
          /\ graph.head[b].username = last.to
          /\ Len(graph.head[a].following) = 1
          /\ Len(graph.head[b].followers) = 1
          /\ graph.head[b].following # <<>>

-----------------------------------------------------------------------------
(* SpecUsers: the FollowGraph filled up to MAX_USERS and beyond, every    *)
(* allocation succeeding                                                  *)

\* The usernames "a", "b", ... in the order they are first added; one more
\* than the graph can hold.
NumNames == MAX_USERS + 1
OrdName(k) == <<96 + k>>

\* A string of USERNAME_MAX characters: one more than a username buffer
\* holds, so graph_add_user stores its first USERNAME_MAX - 1 characters.
NameOver == Rep(122, USERNAME_MAX)

\* The number of graph_add_user calls made with NameOver that add a record.
MaxOverlong == 2

\* The ordinal of the first of the names that is not in g.
FirstFresh(g) ==
    CHOOSE k \in 1..(NumNames + 1) :
        /\ k <= NumNames => ~InGraph(g, OrdName(k))
        /\ \A j \in 1..(k - 1) : InGraph(g, OrdName(j))

\* The number of records that hold the stored form of NameOver.
OverlongRecords(g) ==
    Cardinality({i \in 1..Len(g.head) :
                    g.head[i].username = StrNCpy(NameOver, USERNAME_MAX - 1)})

\* NameOver is passed while it would add one of its MaxOverlong records, and
\* to a full graph.
MayAddOverlong(g) ==
    IF g.user_count >= MAX_USERS THEN TRUE
    ELSE OverlongRecords(g) < MaxOverlong

\* The users edges are tried between.
EdgeNames == {OrdName(1), OrdName(2)}

NextUsers ==
    \/ \E k \in 1..NumNames :
          k <= FirstFresh(graph) /\ GraphAddUser(OrdName(k))
    \/ MayAddOverlong(graph) /\ GraphAddUser(NameOver)
    \/ \E from, to \in EdgeNames : GraphAddEdge(from, to)
    \/ \E from, to \in EdgeNames : GraphRemoveEdge(from, to)

SpecUsers == Init /\ [][NextUsers]_vars

\* C15: graph_add_user called with a username that is already in the graph
\* returns 1 and leaves the user list, every adjacency list and user_count as
\* they were, also when user_count is MAX_USERS.
C15_AddUserIdempotent ==
    [][ (last'.op = "graph_add_user" /\ InGraph(graph, last'.username))
            => (last'.ret = 1 /\ graph' = graph) ]_vars

\* With MAX_USERS users in the graph, a user who is not the newest and who
\* follows someone was added again, with success.
C15_Witness ==
    /\ last.op = "graph_add_user"
    /\ last.ret = 1
    /\ graph.user_count = MAX_USERS
    /\ graph.head[1].username # last.username
    /\ \E a \in 1..Len(graph.head) :
          /\ graph.head[a].username = last.username
          /\ graph.head[a].following # <<>>

\* C16: graph_add_user for a username that is not in the graph returns 0
\* exactly when user_count has reached MAX_USERS (no allocation failing), and
\* after every graph operation user_count is the number of GraphUser records
\* and at most MAX_USERS.
C16_UserLimit ==
    [][ /\ (last'.op = "graph_add_user" /\ ~InGraph(graph, last'.username))
              => /\ (last'.ret = 0) <=> (graph.user_count >= MAX_USERS)
                 /\ last'.ret = 0 => graph' = graph
                 /\ last'.ret = 1 => graph'.user_count = graph.user_count + 1
        /\ graph'.user_count = Len(graph'.head)
        /\ graph'.user_count <= MAX_USERS ]_vars

\* A username that is not in the graph was refused by a graph of MAX_USERS
\* records.
C16_Witness ==
    /\ last.op = "graph_add_user"
    /\ last.ret = 0
    /\ ~InGraph(graph, last.username)
    /\ graph.user_count = MAX_USERS
    /\ Len(graph.head) = MAX_USERS

-----------------------------------------------------------------------------
(* Application State, smm.c: the menu operations on users, session and    *)
(* follow graph                                                           *)

\* n->user.followers += df; n->user.following += dg for the node n that
\* bst_find returns for the username (the tree is unchanged when n is NULL).
RECURSIVE user_add(_, _, _, _)
user_add(root, username, df, dg) ==
    IF root = NULL THEN NULL
    ELSE LET c == StrCmp(username, root.user.username)
         IN  IF c = 0
             THEN [root EXCEPT !.user.followers = @ + df, !.user.following = @ + dg]
             ELSE IF c < 0
             THEN [root EXCEPT !.left = user_add(root.left, username, df, dg)]
             ELSE [root EXCEPT !.right = user_add(root.right, username, df, dg)]

session_required == current # NoUser

\* ui_register; typedU and typedP are the lines typed at the two prompts,
\* allocU and allocG tell whether the calloc of make_user and of
\* graph_add_user succeed.
ui_register(typedU, typedP, allocU, allocG) ==
    LET u == get_line(typedU, USERNAME_MAX)
        p == get_line(typedP, PASSWORD_MAX)
        r == bst_insert(users_bst, u, p, allocU)
        g == graph_add_user(graph, u, allocG)
    IN  IF graph.user_count >= max_users
        THEN /\ last' = [op |-> "ui_register", arg |-> typedU, msg |-> "User limit reached."]
             /\ UNCHANGED <<users_bst, graph>>
        ELSE IF ~valid_name(u)
        THEN /\ last' = [op |-> "ui_register", arg |-> typedU, msg |-> "Invalid username."]
             /\ UNCHANGED <<users_bst, graph>>
        ELSE IF bst_find(users_bst, u) # NULL
        THEN /\ last' = [op |-> "ui_register", arg |-> typedU, msg |-> "Username already exists."]
             /\ UNCHANGED <<users_bst, graph>>
        ELSE IF r.ok = 0
        THEN /\ users_bst' = r.root
             /\ last' = [op |-> "ui_register", arg |-> typedU, msg |-> "Insert failed."]
             /\ UNCHANGED graph
        ELSE /\ users_bst' = r.root
             /\ graph' = g.g
             /\ last' = [op |-> "ui_register", arg |-> typedU, msg |-> "User created.",
                         graph_add_failed |-> (g.ret = 0)]

\* Mutant of ui_login: the password is not compared.
ui_login_any_password(typedU, typedP) ==
    LET u == get_line(typedU, USERNAME_MAX)
        n == bst_find(users_bst, u)
    IN  IF n = NULL
        THEN /\ last' = [op |-> "ui_login", arg |-> typedU, pw |-> typedP,
                         was |-> current, msg |-> "Invalid credentials."]
             /\ UNCHANGED current
        ELSE /\ current' = n.user.username
             /\ last' = [op |-> "ui_login", arg |-> typedU, pw |-> typedP,
                         was |-> current, msg |-> "Logged in"]

\* ui_login; typedU and typedP are the lines typed at the two prompts (the
\* password through get_password, which keeps PASSWORD_MAX - 1 characters as
\* get_line does).  last keeps the session the call found.
ui_login(typedU, typedP) ==
    LET u == get_line(typedU, USERNAME_MAX)
        p == get_line(typedP, PASSWORD_MAX)
        n == bst_find(users_bst, u)
    IN  IF n = NULL \/ StrCmp(n.user.password, p) # 0
        THEN /\ last' = [op |-> "ui_login", arg |-> typedU, pw |-> typedP,
                         was |-> current, msg |-> "Invalid credentials."]
             /\ UNCHANGED current
        ELSE /\ current' = n.user.username
             /\ last' = [op |-> "ui_login", arg |-> typedU, pw |-> typedP,
                         was |-> current, msg |-> "Logged in"]

ui_logout ==
    IF current = NoUser
    THEN /\ last' = [op |-> "ui_logout", arg |-> <<>>, msg |-> "Not logged in."]
         /\ UNCHANGED current
    ELSE /\ current' = NoUser
         /\ last' = [op |-> "ui_logout", arg |-> <<>>, msg |-> "Goodbye"]

\* Mutant of ui_follow: the counters are incremented whatever graph_add_edge
\* returns.
ui_follow_counts_anyway(typed, allocA, allocB) ==
    LET target == get_line(typed, USERNAME_MAX)
        r == graph_add_edge(graph, current, target, allocA, allocB)
    IN  IF ~session_required
        THEN /\ last' = [op |-> "ui_follow", arg |-> typed, msg |-> "Please login first."]
             /\ UNCHANGED <<users_bst, graph>>
        ELSE IF bst_find(users_bst, target) = NULL
        THEN /\ last' = [op |-> "ui_follow", arg |-> typed, msg |-> "User not found."]
             /\ UNCHANGED <<users_bst, graph>>
        ELSE /\ graph' = r.g
             /\ users_bst' = user_add(user_add(users_bst, current, 0, 1), target, 1, 0)
             /\ last' = [op |-> "ui_follow", arg |-> typed,
                         msg |-> IF r.ret = 1 THEN "Now following"
                                 ELSE "Follow failed (maybe already following)."]

\* ui_follow; allocA and allocB as for graph_add_edge.
ui_follow(typed, allocA, allocB) ==
    LET target == get_line(typed, USERNAME_MAX)
        r == graph_add_edge(graph, current, target, allocA, allocB)
    IN  IF ~session_required
        THEN /\ last' = [op |-> "ui_follow", arg |-> typed, msg |-> "Please login first."]
             /\ UNCHANGED <<users_bst, graph>>
        ELSE IF bst_find(users_bst, target) = NULL
        THEN /\ last' = [op |-> "ui_follow", arg |-> typed, msg |-> "User not found."]
             /\ UNCHANGED <<users_bst, graph>>
        ELSE IF r.ret = 1
        THEN /\ graph' = r.g
             /\ users_bst' = user_add(user_add(users_bst, current, 0, 1), target, 1, 0)
             /\ last' = [op |-> "ui_follow", arg |-> typed, msg |-> "Now following"]
        ELSE /\ graph' = r.g
             /\ last' = [op |-> "ui_follow", arg |-> typed,
                         msg |-> "Follow failed (maybe already following)."]
             /\ UNCHANGED users_bst

ui_unfollow(typed) ==
    LET target == get_line(typed, USERNAME_MAX)
        r == graph_remove_edge(graph, current, target)
        me == bst_find(users_bst, current)
        t1 == IF me.user.following > 0
              THEN user_add(users_bst, current, 0, -1) ELSE users_bst
        t == bst_find(t1, target)
        t2 == IF t # NULL /\ t.user.followers > 0
              THEN user_add(t1, target, -1, 0) ELSE t1
    IN  IF ~session_required
        THEN /\ last' = [op |-> "ui_unfollow", arg |-> typed, msg |-> "Please login first."]
             /\ UNCHANGED <<users_bst, graph>>
        ELSE IF r.ret = 1
        THEN /\ graph' = r.g
             /\ users_bst' = t2
             /\ last' = [op |-> "ui_unfollow", arg |-> typed, msg |-> "Unfollowed"]
        ELSE /\ graph' = r.g
             /\ last' = [op |-> "ui_unfollow", arg |-> typed,
                         msg |-> "Unfollow failed (maybe not following)."]
             /\ UNCHANGED users_bst

\* ui_create_post; typed is the line typed at the Content prompt, alloc
\* tells whether the realloc of posts_add succeeds.  The id is taken from
\* next_post_id before posts_add is tried.
ui_create_post(typed, alloc) ==
    LET text == get_line(typed, CONTENT_MAX)
        p == [id      |-> smm_pid,
              author  |-> StrNCpy(current, USERNAME_MAX - 1),
              content |-> StrNCpy(text, CONTENT_MAX - 1)]
        r == posts_add(posts, p, alloc)
    IN  IF ~session_required
        THEN /\ last' = [op |-> "ui_create_post", arg |-> typed, msg |-> "Please login first."]
             /\ UNCHANGED <<posts, smm_pid>>
        ELSE IF posts.size >= max_posts
        THEN /\ last' = [op |-> "ui_create_post", arg |-> typed, msg |-> "Post limit reached."]
             /\ UNCHANGED <<posts, smm_pid>>
        ELSE IF text = <<>>
        THEN /\ last' = [op |-> "ui_create_post", arg |-> typed, msg |-> "Empty content."]
             /\ UNCHANGED <<posts, smm_pid>>
        ELSE /\ posts' = r.pa
             /\ smm_pid' = smm_pid + 1
             /\ last' = [op |-> "ui_create_post", arg |-> typed,
                         msg |-> IF r.ret = 1 THEN "Posted." ELSE "Failed to post."]

\* ui_send_message; typedTo and typedText are the lines typed at the two
\* prompts, stamp stands for the timestamp format_timestamp writes.
ui_send_message(typedTo, typedText, stamp) ==
    LET to == get_line(typedTo, USERNAME_MAX)
        text == get_line(typedText, CONTENT_MAX)
        m == [from    |-> StrNCpy(current, USERNAME_MAX - 1),
              to      |-> StrNCpy(to, USERNAME_MAX - 1),
              content |-> StrNCpy(text, CONTENT_MAX - 1),
              stamp   |-> stamp]
        r == mq_enqueue(mq, m)
    IN  IF ~session_required
        THEN /\ last' = [op |-> "ui_send_message", arg |-> typedTo, text |-> typedText,
                         msg |-> "Please login first."]
             /\ UNCHANGED mq
        ELSE IF bst_find(users_bst, to) = NULL
        THEN /\ last' = [op |-> "ui_send_message", arg |-> typedTo, text |-> typedText,
                         msg |-> "Recipient not found."]
             /\ UNCHANGED mq
        ELSE /\ mq' = r.q
             /\ last' = [op |-> "ui_send_message", arg |-> typedTo, text |-> typedText,
                         msg |-> IF r.ret = 1 THEN "Message queued." ELSE "Queue full."]

\* ui_process_message
ui_process_message ==
    LET r == mq_dequeue(mq)
    IN  /\ mq' = r.q
        /\ last' = [op |-> "ui_process_message", arg |-> <<>>, out |-> r.out,
                    msg |-> IF r.ret = 1 THEN "Delivered" ELSE "No messages to deliver."]

\* The sizes of the admin name and password buffers.  smm.c declares
\* char u[ADMIN_USERNAME_MAX], p[ADMIN_PASSWORD_MAX]; the smm.h at hand does
\* not define the two names, and the model takes the sizes of the user
\* buffers for them.  No admin line typed in the model reaches either size.
ADMIN_USERNAME_MAX == USERNAME_MAX
ADMIN_PASSWORD_MAX == PASSWORD_MAX

\* ui_admin_register; typedU and typedP are the lines typed at the two prompts.
ui_admin_register(typedU, typedP) ==
    LET u == get_line(typedU, ADMIN_USERNAME_MAX)
        p == get_line(typedP, ADMIN_PASSWORD_MAX)
    IN  IF admin.is_registered # 0
        THEN /\ last' = [op |-> "ui_admin_register", msg |-> "Admin already registered."]
             /\ UNCHANGED admin
        ELSE IF u = <<>>
        THEN /\ last' = [op |-> "ui_admin_register", msg |-> "Invalid username."]
             /\ UNCHANGED admin
        ELSE IF p = <<>>
        THEN /\ last' = [op |-> "ui_admin_register", msg |-> "Invalid password."]
             /\ UNCHANGED admin
        ELSE /\ admin' = [is_registered |-> 1,
                          username |-> StrNCpy(u, ADMIN_USERNAME_MAX - 1),
                          password |-> StrNCpy(p, ADMIN_PASSWORD_MAX - 1)]
             /\ last' = [op |-> "ui_admin_register", msg |-> "Admin registered successfully."]

\* ui_admin_login; current_admin is TRUE when the pointer is &app->admin and
\* FALSE when it is NULL.
ui_admin_login(typedU, typedP) ==
    LET u == get_line(typedU, ADMIN_USERNAME_MAX)
        p == get_line(typedP, ADMIN_PASSWORD_MAX)
    IN  IF admin.is_registered = 0
        THEN /\ last' = [op |-> "ui_admin_login",
                         msg |-> "No admin registered. Please register first."]
             /\ UNCHANGED current_admin
        ELSE IF current_admin
        THEN /\ last' = [op |-> "ui_admin_login", msg |-> "Admin already logged in."]
             /\ UNCHANGED current_admin
        ELSE IF StrCmp(admin.username, u) # 0 \/ StrCmp(admin.password, p) # 0
        THEN /\ last' = [op |-> "ui_admin_login", msg |-> "Invalid admin credentials."]
             /\ UNCHANGED current_admin
        ELSE /\ current_admin' = TRUE
             /\ last' = [op |-> "ui_admin_login", msg |-> "Admin logged in"]

ui_admin_logout ==
    IF ~current_admin
    THEN /\ last' = [op |-> "ui_admin_logout", msg |-> "Admin not logged in."]
         /\ UNCHANGED current_admin
    ELSE /\ current_admin' = FALSE
         /\ last' = [op |-> "ui_admin_logout", msg |-> "Admin logged out."]

\* One prompt of ui_admin_change_limits: the limit after the line typed was
\* read into buf[32]; an empty line, a line without a number and a number
\* that is not positive leave the limit as it was.
new_limit(old, typed) ==
    LET buf == get_line(typed, 32)
        new_val == strtol(buf).val
    IN  IF buf # <<>> /\ new_val > 0 THEN new_val ELSE old

\* ui_admin_change_limits; the three lines typed at its prompts.
ui_admin_change_limits(typedUsers, typedPosts, typedMessages) ==
    IF ~current_admin
    THEN /\ last' = [op |-> "ui_admin_change_limits", msg |-> "Admin access required."]
         /\ UNCHANGED <<max_users, max_posts, max_messages>>
    ELSE /\ max_users' = new_limit(max_users, typedUsers)
         /\ max_posts' = new_limit(max_posts, typedPosts)
         /\ max_messages' = new_limit(max_messages, typedMessages)
         /\ last' = [op |-> "ui_admin_change_limits", msg |-> "Limits updated."]

-----------------------------------------------------------------------------
(* SpecFollow: register, login, logout, follow and unfollow from the menu, *)
(* every allocation succeeding                                            *)

\* No follow is started once a counter of some user has reached MaxCounter.
MaxCounter == 2

\* A line with a space in it: no valid username.
NameBad == <<97, 32, 98>>

RegNames == {NameA, NameB, NameBad}
\* usernames typed at login and as follow targets; NameC is never registered
TypedNames == {NameA, NameB, NameC}

RECURSIVE CountersBelow(_, _)
CountersBelow(root, k) ==
    IF root = NULL THEN TRUE
    ELSE /\ root.user.followers < k
         /\ root.user.following < k
         /\ CountersBelow(root.left, k)
         /\ CountersBelow(root.right, k)

UiRegister(u) ==
    /\ ui_register(u, Pw1, TRUE, TRUE)
    /\ UNCHANGED <<current, posts, mq, admin, current_admin,
                   max_users, max_posts, max_messages, smm_pid, dsaVars, hist>>

UiLogin(u, p) ==
    /\ ui_login(u, p)
    /\ UNCHANGED <<users_bst, posts, mq, graph, admin, current_admin,
                   max_users, max_posts, max_messages, smm_pid, dsaVars, hist>>

UiLogout ==
    /\ ui_logout
    /\ UNCHANGED <<users_bst, posts, mq, graph, admin, current_admin,
                   max_users, max_posts, max_messages, smm_pid, dsaVars, hist>>

UiFollow(target) ==
    /\ CountersBelow(users_bst, MaxCounter)
    /\ ui_follow(target, TRUE, TRUE)
    /\ UNCHANGED <<current, posts, mq, admin, current_admin,
                   max_users, max_posts, max_messages, smm_pid, dsaVars, hist>>

UiUnfollow(target) ==
    /\ ui_unfollow(target)
    /\ UNCHANGED <<current, posts, mq, admin, current_admin,
                   max_users, max_posts, max_messages, smm_pid, dsaVars, hist>>

NextFollow ==
    \/ \E u \in RegNames : UiRegister(u)
    \/ \E u \in TypedNames, p \in Passwords : UiLogin(u, p)
    \/ UiLogout
    \/ \E t \in TypedNames : UiFollow(t)
    \/ \E t \in TypedNames : UiUnfollow(t)

SpecFollow == Init /\ [][NextFollow]_vars

\* C1: every user's following counter in UserIndex equals the length of the
\* user's following list in FollowGraph, and the followers counter the
\* length of the followers list.
C1_CountersMatchLists ==
    \A u \in RegNames :
        LET n == bst_find(users_bst, u)
            g == graph_find(graph, u)
        IN  n # NULL =>
                /\ g # 0
                /\ n.user.following = Len(graph.head[g].following)
                /\ n.user.followers = Len(graph.head[g].followers)

-----------------------------------------------------------------------------
(* SpecFollowAlloc: the menu operations of SpecFollow, each allocation of *)
(* register and follow succeeding or failing                              *)

UiRegisterAlloc(u, allocU, allocG) ==
    /\ ui_register(u, Pw1, allocU, allocG)
    /\ UNCHANGED <<current, posts, mq, admin, current_admin,
                   max_users, max_posts, max_messages, smm_pid, dsaVars, hist>>

UiFollowAlloc(target, allocA, allocB) ==
    /\ CountersBelow(users_bst, MaxCounter)
    /\ ui_follow(target, allocA, allocB)
    /\ UNCHANGED <<current, posts, mq, admin, current_admin,
                   max_users, max_posts, max_messages, smm_pid, dsaVars, hist>>

NextFollowAlloc ==
    \/ \E u \in RegNames, allocU, allocG \in BOOLEAN : UiRegisterAlloc(u, allocU, allocG)
    \/ \E u \in TypedNames, p \in Passwords : UiLogin(u, p)
    \/ UiLogout
    \/ \E t \in TypedNames, allocA, allocB \in BOOLEAN : UiFollowAlloc(t, allocA, allocB)
    \/ \E t \in TypedNames : UiUnfollow(t)

SpecFollowAlloc == Init /\ [][NextFollowAlloc]_vars

\* What ui_follow and ui_unfollow print when they reject.
RejectedFollow ==
    {"Please login first.", "User not found.",
     "Follow failed (maybe already following).",
     "Unfollow failed (maybe not following)."}

\* No entry of the edge from -> to is in g, on either side.
EdgeAbsent(g, from, to) ==
    \A a \in 1..Len(g.head) :
        /\ g.head[a].username = from
              => \A i \in 1..Len(g.head[a].following) : g.head[a].following[i] # to
        /\ g.head[a].username = to
              => \A i \in 1..Len(g.head[a].followers) : g.head[a].followers[i] # from

RECURSIVE NodeOf(_, _)
NodeOf(root, username) ==
    IF root = NULL THEN NULL
    ELSE IF root.user.username = username THEN root
    ELSE IF NodeOf(root.left, username) # NULL THEN NodeOf(root.left, username)
    ELSE NodeOf(root.right, username)

\* C19: over register, login and logout the session is none or the user of
\* the latest successful login since the last logout: a login with the
\* username of a registered user and that user's password makes that user
\* the session, whatever the session was; any other login leaves the session
\* as it was; logout makes it none; no other operation changes it; and a
\* session that is not none is a user stored in UserIndex.
C19_Session ==
    [][ /\ last'.op = "ui_login" =>
              LET u == get_line(last'.arg, USERNAME_MAX)
                  n == NodeOf(users_bst, u)
              IN  IF n # NULL /\ n.user.password = get_line(last'.pw, PASSWORD_MAX)
                  THEN current' = u /\ last'.msg = "Logged in"
                  ELSE current' = current /\ last'.msg = "Invalid credentials."
        /\ last'.op = "ui_logout" => current' = NoUser
        /\ last'.op \notin {"ui_login", "ui_logout"} => current' = current
        /\ current' # NoUser => NodeOf(users_bst', current') # NULL ]_vars

\* A login succeeded while another user was the session, and replaced it.
C19_Witness ==
    /\ last.op = "ui_login"
    /\ last.msg = "Logged in"
    /\ last.was # NoUser
    /\ last.was # current
    /\ current = last.arg

-----------------------------------------------------------------------------
(* SpecOrder: one user who registers, logs in and out, creates posts until *)
(* the PostLog is full, follows and sends messages                         *)

\* The number of ui_send_message calls that reach mq_enqueue in a run.
MaxSendCalls == 2

\* The lines typed at the Content and Message prompts: the empty line and "h".
TextLines == {<<>>, <<104>>}
\* The usernames typed as follow target and recipient; NameC is not registered.
OrderNames == {NameA, NameC}

UiCreatePost(text) ==
    /\ ui_create_post(text, TRUE)
    /\ UNCHANGED <<users_bst, current, mq, graph, admin, current_admin,
                   max_users, max_posts, max_messages, dsaVars, hist>>

UiSendMessage(to, text) ==
    /\ hist.enq_calls < MaxSendCalls
    /\ ui_send_message(to, text, hist.enq_calls + 1)
    /\ hist' = [hist EXCEPT !.enq_calls =
                    IF last'.msg \in {"Message queued.", "Queue full."} THEN @ + 1 ELSE @]
    /\ UNCHANGED <<users_bst, current, posts, graph, admin, current_admin,
                   max_users, max_posts, max_messages, smm_pid, dsaVars>>

NextOrder ==
    \/ UiRegister(NameA)
    \/ \E p \in Passwords : UiLogin(NameA, p)
    \/ UiLogout
    \/ \E text \in TextLines : UiCreatePost(text)
    \/ \E t \in OrderNames : UiFollow(t)
    \/ \E to \in OrderNames, text \in TextLines : UiSendMessage(to, text)

SpecOrder == Init /\ [][NextOrder]_vars

\* C18: create post, follow and send message make their checks in the order
\* session present, target exists, content valid, capacity not exceeded, and
\* the first check that fails decides the rejection: create-post with a
\* session, an empty content line and a full PostLog is rejected for its
\* content, not for capacity.
C18_CheckOrder ==
    [][ /\ last'.op = "ui_create_post" =>
              last'.msg = IF current = NoUser THEN "Please login first."
                          ELSE IF get_line(last'.arg, CONTENT_MAX) = <<>>
                          THEN "Empty content."
                          ELSE IF posts.size >= max_posts THEN "Post limit reached."
                          ELSE "Posted."
        /\ last'.op = "ui_follow" =>
              IF current = NoUser THEN last'.msg = "Please login first."
              ELSE IF bst_find(users_bst, get_line(last'.arg, USERNAME_MAX)) = NULL
              THEN last'.msg = "User not found."
              ELSE last'.msg \notin {"Please login first.", "User not found."}
        /\ last'.op = "ui_send_message" =>
              IF current = NoUser THEN last'.msg = "Please login first."
              ELSE IF bst_find(users_bst, get_line(last'.arg, USERNAME_MAX)) = NULL
              THEN last'.msg = "Recipient not found."
              ELSE IF get_line(last'.text, CONTENT_MAX) = <<>>
              THEN /\ last'.msg \notin {"Message queued.", "Queue full."}
                   /\ mq' = mq
              ELSE last'.msg = IF mq.count = MAX_MESSAGES THEN "Queue full."
                               ELSE "Message queued." ]_vars

\* C27: a send-message operation with an empty content line is rejected and
\* leaves the MessageQueue as it was, so that no message with empty content
\* is ever pending.
C27_EmptyMessageRejected ==
    [][ /\ (last'.op = "ui_send_message" /\ get_line(last'.text, CONTENT_MAX) = <<>>) =>
              (last'.msg # "Message queued." /\ mq' = mq)
        /\ \A k \in 1..mq'.count : mq_print(mq')[k].content # <<>> ]_vars

-----------------------------------------------------------------------------
(* SpecMenu: two users at the menu: register, login, logout, create post, *)
(* follow, unfollow, send message and process message                     *)

\* No post is created once next_post_id has handed out MaxMenuPosts ids.
MaxMenuPosts == 1

UiCreatePostBounded(text) ==
    /\ smm_pid <= MaxMenuPosts
    /\ UiCreatePost(text)

UiProcessMessage ==
    /\ ui_process_message
    /\ hist' = [hist EXCEPT
                  !.delivered = IF last'.msg = "Delivered" THEN Append(@, last'.out) ELSE @]
    /\ UNCHANGED <<users_bst, current, posts, graph, admin, current_admin,
                   max_users, max_posts, max_messages, smm_pid, dsaVars>>

NextMenu ==
    \/ \E u \in RegNames : UiRegister(u)
    \/ \E u \in TypedNames, p \in Passwords : UiLogin(u, p)
    \/ UiLogout
    \/ UiCreatePostBounded(<<104>>)
    \/ \E t \in TypedNames : UiFollow(t)
    \/ \E t \in TypedNames : UiUnfollow(t)
    \/ \E to \in OrderNames : UiSendMessage(to, <<104>>)
    \/ UiProcessMessage

SpecMenu == Init /\ [][NextMenu]_vars

\* The menu operations that change PostLog, MessageQueue, FollowGraph or
\* counters.
MutatingOps ==
    {"ui_create_post", "ui_follow", "ui_unfollow", "ui_send_message",
     "ui_process_message"}

\* C20: while there is no session, no menu operation other than register and
\* login (and the admin operations) changes the PostLog, the MessageQueue,
\* the FollowGraph or a counter of any user: create post, follow, unfollow,
\* send message and process message leave them as they were.
C20_NoSessionNoChange ==
    [][ (current = NoUser /\ last'.op \in MutatingOps)
            => /\ posts' = posts
               /\ mq' = mq
               /\ graph' = graph
               /\ users_bst' = users_bst ]_vars

-----------------------------------------------------------------------------
(* SpecAlloc: two users register, one of them logs in and out, follows,   *)
(* unfollows and creates posts, each allocation succeeding or failing;    *)
(* hist.allocs keeps what the allocator answered to the last operation    *)

\* No post is created once next_post_id has handed out MaxAllocPosts ids: one
\* more than the initial capacity, so that posts_add has to grow the array.
MaxAllocPosts == 9

UiRegisterFlagged(u, allocU, allocG) ==
    /\ ui_register(u, Pw1, allocU, allocG)
    /\ hist' = [hist EXCEPT !.allocs = <<allocU, allocG>>]
    /\ UNCHANGED <<current, posts, mq, admin, current_admin,
                   max_users, max_posts, max_messages, smm_pid, dsaVars>>

UiFollowFlagged(target, allocA, allocB) ==
    /\ CountersBelow(users_bst, MaxCounter)
    /\ ui_follow(target, allocA, allocB)
    /\ hist' = [hist EXCEPT !.allocs = <<allocA, allocB>>]
    /\ UNCHANGED <<current, posts, mq, admin, current_admin,
                   max_users, max_posts, max_messages, smm_pid, dsaVars>>

UiCreatePostFlagged(text, alloc) ==
    /\ smm_pid <= MaxAllocPosts
    /\ ui_create_post(text, alloc)
    /\ hist' = [hist EXCEPT !.allocs = <<alloc>>]
    /\ UNCHANGED <<users_bst, current, mq, graph, admin, current_admin,
                   max_users, max_posts, max_messages, dsaVars>>

NextAlloc ==
    \/ \E u \in {NameA, NameB}, allocU, allocG \in BOOLEAN :
          UiRegisterFlagged(u, allocU, allocG)
    \/ UiLogin(NameA, Pw1)
    \/ UiLogout
    \/ \E t \in {NameA, NameB}, allocA, allocB \in BOOLEAN :
          UiFollowFlagged(t, allocA, allocB)
    \/ \E t \in {NameA, NameB} : UiUnfollow(t)
    \/ \E alloc \in BOOLEAN : UiCreatePostFlagged(<<104>>, alloc)

SpecAlloc == Init /\ [][NextAlloc]_vars

\* The usernames of the nodes of the tree.
RECURSIVE BstNamesOf(_)
BstNamesOf(root) ==
    IF root = NULL THEN {}
    ELSE {root.user.username} \cup BstNamesOf(root.left) \cup BstNamesOf(root.right)

\* The entries of the list.
Entries(list) == {list[i] : i \in 1..Len(list)}

\* C21: when an allocation fails inside register (make_user in bst_insert,
\* graph_add_user), follow (either adj_prepend of graph_add_edge) or create
\* post (the realloc of posts_add), the operation reports failure and
\* UserIndex with all counters, PostLog and FollowGraph are as before it.
C21_AllocFailureNoPartialMutation ==
    [][ /\ last'.op = "ui_register" =>
              LET u == get_line(last'.arg, USERNAME_MAX)
                  asked == /\ graph.user_count < max_users
                           /\ valid_name(u)
                           /\ u \notin BstNamesOf(users_bst)
                  askedG == /\ hist'.allocs[1]
                            /\ ~InGraph(graph, u)
                            /\ graph.user_count < MAX_USERS
              IN  (asked /\ (~hist'.allocs[1] \/ (askedG /\ ~hist'.allocs[2])))
                      => /\ last'.msg # "User created."
                         /\ users_bst' = users_bst
                         /\ graph' = graph
        /\ last'.op = "ui_follow" =>
              LET t == get_line(last'.arg, USERNAME_MAX)
                  asked == /\ current # NoUser
                           /\ t \in BstNamesOf(users_bst)
                           /\ InGraph(graph, current)
                           /\ InGraph(graph, t)
                           /\ t # current
                  A == graph_find(graph, current)
                  B == graph_find(graph, t)
              IN  ( /\ asked
                    /\ \/ t \notin Entries(graph.head[A].following) /\ ~hist'.allocs[1]
                       \/ current \notin Entries(graph.head[B].followers) /\ ~hist'.allocs[2] )
                      => /\ last'.msg # "Now following"
                         /\ users_bst' = users_bst
                         /\ graph' = graph
        /\ ( /\ last'.op = "ui_create_post"
              /\ current # NoUser
              /\ get_line(last'.arg, CONTENT_MAX) # <<>>
              /\ posts.size < max_posts
              /\ posts.size = posts.cap
              /\ ~hist'.allocs[1] )
              => /\ last'.msg = "Failed to post."
                 /\ posts' = posts ]_vars

-----------------------------------------------------------------------------
(* SpecLimits: users register one after the other, an admin registers,     *)
(* logs in and out and changes the user limit, the first user logs in and  *)
(* follows; every allocation succeeding                                    *)

\* The usernames "a", "b", ... typed at register: two more than MAX_USERS.
NumLimitNames == MAX_USERS + 2

\* The lines typed at the MAX_USERS prompt of change limits: the empty line,
\* "0", "2" and "11".
LimitLines == {<<>>, <<48>>, <<50>>, <<49, 49>>}

\* The users followed: the second and the one registered after MAX_USERS
\* others.
LimitTargets == {OrdName(2), OrdName(MAX_USERS + 1)}

\* The ordinal of the next username that was not registered yet.
NextOrd == Cardinality(BstNamesOf(users_bst)) + 1

\* Register with the first username once more or with the next new one.
UiRegisterOrd(k) ==
    /\ k \in {1, NextOrd}
    /\ ui_register(OrdName(k), Pw1, TRUE, TRUE)
    /\ UNCHANGED <<current, posts, mq, admin, current_admin,
                   max_users, max_posts, max_messages, smm_pid, dsaVars, hist>>

UiAdminRegister(u, p) ==
    /\ ui_admin_register(u, p)
    /\ UNCHANGED <<users_bst, current, posts, mq, graph, current_admin,
                   max_users, max_posts, max_messages, smm_pid, dsaVars, hist>>

UiAdminLogin(u, p) ==
    /\ ui_admin_login(u, p)
    /\ UNCHANGED <<users_bst, current, posts, mq, graph, admin,
                   max_users, max_posts, max_messages, smm_pid, dsaVars, hist>>

UiAdminLogout ==
    /\ ui_admin_logout
    /\ UNCHANGED <<users_bst, current, posts, mq, graph, admin,
                   max_users, max_posts, max_messages, smm_pid, dsaVars, hist>>

UiAdminChangeLimits(typedUsers, typedPosts, typedMessages) ==
    /\ ui_admin_change_limits(typedUsers, typedPosts, typedMessages)
    /\ UNCHANGED <<users_bst, current, posts, mq, graph, admin, current_admin,
                   smm_pid, dsaVars, hist>>

NextLimits ==
    \/ \E k \in 1..NumLimitNames : UiRegisterOrd(k)
    \/ UiAdminRegister(NameA, Pw1)
    \/ \E p \in Passwords : UiAdminLogin(NameA, p)
    \/ UiAdminLogout
    \/ \E l \in LimitLines : UiAdminChangeLimits(l, <<>>, <<>>)
    \/ UiLogin(NameA, Pw1)
    \/ UiLogout
    \/ \E t \in LimitTargets : UiFollow(t)

SpecLimits == Init /\ [][NextLimits]_vars

\* C28: whatever register and admin change-limits operations ran, a register
\* that finds as many users in the UserIndex as max_users allows, or more, is
\* rejected and adds no user.
C28_RegisterRespectsLimit ==
    [][ (last'.op = "ui_register" /\ Cardinality(BstNamesOf(users_bst)) >= max_users) =>
            /\ last'.msg # "User created."
            /\ users_bst' = users_bst
            /\ graph' = graph ]_vars

\* C29: after any menu operations, admin change-limits included, and with no
\* allocation failing, the usernames of the UserIndex are the usernames of the
\* FollowGraph and graph.user_count is the number of users in the UserIndex.
C29_IndexMatchesGraph ==
    /\ BstNamesOf(users_bst) = {graph.head[i].username : i \in 1..Len(graph.head)}
    /\ graph.user_count = Cardinality(BstNamesOf(users_bst))

-----------------------------------------------------------------------------
(* SpecPostLimits: one user registers, logs in and creates posts, the       *)
(* realloc of posts_add succeeding or failing, while an admin registers,    *)
(* logs in and changes the post limit                                       *)

\* No post is created once next_post_id has handed out MaxLimitIds ids: more
\* than MAX_POSTS, so that the full PostLog is met after failed appends too.
MaxLimitIds == 32

\* The lines typed at the MAX_POSTS prompt of change limits: the empty line,
\* "9" and "40".
PostLimitLines == {<<>>, <<57>>, <<52, 48>>}

UiCreatePostLimited(alloc) ==
    /\ smm_pid <= MaxLimitIds
    /\ ui_create_post(<<104>>, alloc)
    /\ hist' = [hist EXCEPT !.allocs = <<alloc>>]
    /\ UNCHANGED <<users_bst, current, mq, graph, admin, current_admin,
                   max_users, max_posts, max_messages, dsaVars>>

NextPostLimits ==
    \/ UiRegister(NameA)
    \/ UiLogin(NameA, Pw1)
    \/ \E alloc \in BOOLEAN : UiCreatePostLimited(alloc)
    \/ UiAdminRegister(NameA, Pw1)
    \/ UiAdminLogin(NameA, Pw1)
    \/ \E l \in PostLimitLines : UiAdminChangeLimits(<<>>, l, <<>>)

SpecPostLimits == Init /\ [][NextPostLimits]_vars

\* 0 <= size <= cap <= MAX_POSTS, the size stored posts being those of data
CapacityBounds(pa) ==
    /\ 0 <= pa.size
    /\ pa.size <= pa.cap
    /\ pa.cap <= MAX_POSTS
    /\ Len(pa.data) = pa.size

\* C31: after posts_init(8), whatever posts_add calls and admin change-limits
\* ran, 0 <= size <= cap <= MAX_POSTS; cap changes only in an add made with
\* size = cap < MAX_POSTS and becomes min(2 * cap, MAX_POSTS) then, and a post
\* is only ever written at an index below the capacity.
C31_CapacityBounds ==
    [][ /\ CapacityBounds(posts)
        /\ CapacityBounds(posts')
        /\ posts'.cap # posts.cap =>
              /\ last'.op = "ui_create_post"
              /\ posts.size = posts.cap
              /\ posts.cap < MAX_POSTS
              /\ posts'.cap = Min(2 * posts.cap, MAX_POSTS)
        /\ posts'.size # posts.size =>
              /\ posts'.size = posts.size + 1
              /\ posts.size < posts'.cap ]_vars

\* C31 witness: with max_posts raised above MAX_POSTS a create post met the
\* PostLog holding MAX_POSTS posts in a capacity of MAX_POSTS and was refused
\* by posts_add.
C31_Witness ==
    /\ last.op = "ui_create_post"
    /\ last.msg = "Failed to post."
    /\ max_posts > MAX_POSTS
    /\ posts.size = MAX_POSTS
    /\ posts.cap = MAX_POSTS

-----------------------------------------------------------------------------
(* Application, DSA_MINI_PROJECT.c: users, publishing and scheduling      *)

validate_username_strict(s) ==
    IF Len(s) = 0 THEN ERR_INVALID
    ELSE IF Len(s) >= USERNAME_MAX THEN ERR_TOO_LONG
    ELSE IF \E i \in 1..Len(s) : ~IsPrint(s[i]) \/ IsSpace(s[i]) THEN ERR_INVALID
    ELSE ERR_OK

validate_password(s) ==
    IF Len(s) = 0 THEN ERR_INVALID
    ELSE IF Len(s) >= DSA_PASSWORD_MAX THEN ERR_TOO_LONG
    ELSE IF \E i \in 1..Len(s) : ~IsPrint(s[i]) THEN ERR_INVALID
    ELSE ERR_OK

\* verify_password for the node u and the line typed at its prompt.
verify_password(u, typed) ==
    u # NULL /\ StrCmp(get_line(typed, DSA_PASSWORD_MAX), u.user.password) = 0

\* create_user
create_user(typedU, typedP, alloc) ==
    LET username == get_line(typedU, USERNAME_MAX)
        password == get_line(typedP, DSA_PASSWORD_MAX)
        r == dsa_bst_insert(d_users, username, password, alloc)
    IN  IF validate_username_strict(username) # ERR_OK
        THEN /\ last' = [op |-> "create_user", arg |-> typedU, msg |-> "Invalid username."]
             /\ UNCHANGED d_users
        ELSE IF validate_password(password) # ERR_OK
        THEN /\ last' = [op |-> "create_user", arg |-> typedU, msg |-> "Invalid password."]
             /\ UNCHANGED d_users
        ELSE IF r.root = NULL /\ r.inserted = 0
        THEN /\ last' = [op |-> "create_user", arg |-> typedU,
                         msg |-> "Memory failure while creating user."]
             /\ UNCHANGED d_users
        ELSE /\ d_users' = r.root
             /\ last' = [op |-> "create_user", arg |-> typedU,
                         msg |-> IF r.inserted = 1 THEN "created" ELSE "already exists"]

\* create_post_ui
create_post_ui(typedAuthor, typedPw, typedContent, alloc) ==
    LET author == get_line(typedAuthor, USERNAME_MAX)
        u == dsa_bst_find(d_users, author)
        content == get_line(typedContent, DSA_CONTENT_MAX)
        r == publish_post(d_published, d_pid, author, content, alloc)
    IN  IF u = NULL
        THEN /\ last' = [op |-> "create_post_ui", msg |-> "User not found."]
             /\ UNCHANGED <<d_published, d_pid>>
        ELSE IF ~verify_password(u, typedPw)
        THEN /\ last' = [op |-> "create_post_ui", msg |-> "Incorrect password."]
             /\ UNCHANGED <<d_published, d_pid>>
        ELSE IF validate_content(content) # ERR_OK
        THEN /\ last' = [op |-> "create_post_ui", msg |-> "Invalid/empty content."]
             /\ UNCHANGED <<d_published, d_pid>>
        ELSE /\ d_published' = r.pa
             /\ d_pid' = r.pid
             /\ last' = [op |-> "create_post_ui",
                         msg |-> IF r.ret = ERR_OK THEN "Published" ELSE "Failed to publish post"]

\* schedule_post_ui
schedule_post_ui(typedAuthor, typedPw, typedTime, typedContent, alloc) ==
    LET author == get_line(typedAuthor, USERNAME_MAX)
        u == dsa_bst_find(d_users, author)
        timebuf == get_line(typedTime, 32)
        when == strtol(timebuf)
        content == get_line(typedContent, DSA_CONTENT_MAX)
        sp == [id |-> d_pid,
               author |-> StrNCpy(author, USERNAME_MAX - 1),
               content |-> StrNCpy(content, DSA_CONTENT_MAX - 1),
               scheduled_time |-> when.val]
        r == schedule_post_add(d_scheduled, sp, alloc)
    IN  IF u = NULL
        THEN /\ last' = [op |-> "schedule_post_ui", msg |-> "User not found."]
             /\ UNCHANGED <<d_scheduled, d_pid>>
        ELSE IF ~verify_password(u, typedPw)
        THEN /\ last' = [op |-> "schedule_post_ui", msg |-> "Incorrect password."]
             /\ UNCHANGED <<d_scheduled, d_pid>>
        ELSE IF when.endp = 0 \/ when.endp # Len(timebuf)
        THEN /\ last' = [op |-> "schedule_post_ui", msg |-> "Invalid time format."]
             /\ UNCHANGED <<d_scheduled, d_pid>>
        ELSE IF validate_content(content) # ERR_OK
        THEN /\ last' = [op |-> "schedule_post_ui", msg |-> "Invalid/empty content."]
             /\ UNCHANGED <<d_scheduled, d_pid>>
        ELSE /\ d_scheduled' = r.sl
             /\ d_pid' = d_pid + 1
             /\ last' = [op |-> "schedule_post_ui", sp |-> sp,
                         msg |-> IF r.ret = ERR_OK THEN "Scheduled" ELSE "Failed to schedule post"]

-----------------------------------------------------------------------------
(* SpecSched: create user, create post, schedule post and process due     *)
(* posts from the menu, every allocation succeeding                       *)

\* No post is created or scheduled once next_post_id has handed out MaxIds
\* ids.
MaxIds == 3

DsaUserNames == {NameA, NameB}
\* author names typed; NameC is never created
DsaAuthors == {NameA, NameC}
\* the lines typed at the time prompt: "1", "2", "1x" and the empty line
TimeLines == {<<49>>, <<50>>, <<49, 120>>, <<>>}
ContentLines == {<<>>, <<104>>}

\* Time passes: now_seconds returns a later second.
Tick ==
    /\ clock < MaxTime
    /\ clock' = clock + 1
    /\ UNCHANGED <<smmVars, d_users, d_published, d_scheduled, d_mq, d_pid, last, hist>>

DsaCreateUser(u) ==
    /\ create_user(u, Pw1, TRUE)
    /\ UNCHANGED <<smmVars, d_published, d_scheduled, d_mq, d_pid, clock, hist>>

DsaCreatePost(a, p, c) ==
    /\ d_pid <= MaxIds
    /\ create_post_ui(a, p, c, TRUE)
    /\ UNCHANGED <<smmVars, d_users, d_scheduled, d_mq, clock, hist>>

DsaSchedulePost(a, p, t, c) ==
    /\ d_pid <= MaxIds
    /\ schedule_post_ui(a, p, t, c, TRUE)
    /\ UNCHANGED <<smmVars, d_users, d_published, d_mq, clock, hist>>

\* Menu choice 7: process_scheduled(&app, now_seconds()).  last keeps buf and
\* the posts the call appended to the PostLog.
DsaProcessScheduled ==
    /\ LET r == process_scheduled(d_scheduled, d_published, d_pid, clock, TRUE)
       IN  /\ d_scheduled' = r.sl
           /\ d_published' = r.pa
           /\ d_pid' = r.pid
           /\ last' = [op |-> "process_scheduled", now |-> clock, buf |-> r.buf,
                       appended |-> SubSeq(r.pa.data, d_published.size + 1, r.pa.size)]
    /\ UNCHANGED <<smmVars, d_users, d_mq, clock, hist>>

NextSched ==
    \/ Tick
    \/ \E u \in DsaUserNames : DsaCreateUser(u)
    \/ \E a \in DsaAuthors, p \in Passwords, c \in ContentLines : DsaCreatePost(a, p, c)
    \/ \E a \in DsaAuthors, p \in Passwords, t \in TimeLines, c \in ContentLines :
          DsaSchedulePost(a, p, t, c)
    \/ DsaProcessScheduled

SpecSched == Init /\ [][NextSched]_vars

\* C3: a scheduled post published by process_scheduled is appended to the
\* PostLog with the id its ScheduledPost was given by schedule_post_ui.
C3_ScheduledIdCarriedOver ==
    last.op = "process_scheduled" =>
        /\ Len(last.appended) = Len(last.buf)
        /\ \A i \in 1..Len(last.buf) : last.appended[i].id = last.buf[i].id

\* the ids of a sequence of Posts or ScheduledPosts, in its order
IdsOf(seq) == [i \in 1..Len(seq) |-> seq[i].id]

\* C23: whatever create-post, schedule-post and process-due operations ran
\* (rejected ones included), the ids of the published Posts and of the pending
\* ScheduledPosts are pairwise distinct, and the ids in the PostLog increase
\* strictly in append order.
C23_IdsDistinctAndIncreasing ==
    LET ids == IdsOf(d_published.data) \o IdsOf(d_scheduled)
    IN  /\ \A i, j \in 1..Len(ids) : i # j => ids[i] # ids[j]
        /\ \A i \in 1..(d_published.size - 1) :
              d_published.data[i].id < d_published.data[i + 1].id

\* C23 witness: process_scheduled has just appended a post to a PostLog that
\* now holds at least two posts, while another scheduled post is pending.
C23_Witness ==
    /\ last.op = "process_scheduled"
    /\ Len(last.appended) >= 1
    /\ d_published.size >= 2
    /\ Len(d_scheduled) >= 1

-----------------------------------------------------------------------------
(* SpecCreate: create_user from the menu of DSA_MINI_PROJECT.c with names  *)
(* typed in any order, the allocation of the node succeeding or failing;   *)
(* hist.allocs keeps what the allocator answered                           *)

\* The names "a", "b", ... typed at the username prompt: MaxCreate of them.
MaxCreate == 5

CreateNames == {OrdName(k) : k \in 1..MaxCreate} \cup {NameBad}

DsaCreateUserFlagged(u, alloc) ==
    /\ create_user(u, Pw1, alloc)
    /\ hist' = [hist EXCEPT !.allocs = <<alloc>>]
    /\ UNCHANGED <<smmVars, d_published, d_scheduled, d_mq, d_pid, clock>>

NextCreate ==
    \E u \in CreateNames, alloc \in BOOLEAN : DsaCreateUserFlagged(u, alloc)

SpecCreate == Init /\ [][NextCreate]_vars

\* the create_user call of the step got a valid username (the password typed
\* is always valid)
ValidCreate(typed) == validate_username_strict(get_line(typed, USERNAME_MAX)) = ERR_OK

\* C22: whatever the tree, create_user reports a failed node allocation
\* differently from a duplicate username (for which it reports "already
\* exists"), and leaves the tree as it was in both cases.
C22_AllocFailureNotDuplicate ==
    [][ (last'.op = "create_user" /\ ValidCreate(last'.arg)) =>
            IF dsa_bst_find(d_users, get_line(last'.arg, USERNAME_MAX)) # NULL
            THEN last'.msg = "already exists" /\ d_users' = d_users
            ELSE ~hist'.allocs[1] =>
                    (last'.msg # "already exists" /\ d_users' = d_users) ]_vars

-----------------------------------------------------------------------------
(* SpecProcess: one user of DSA_MINI_PROJECT.c publishes posts until the   *)
(* PostLog has to grow, schedules posts and processes the due ones, the    *)
(* realloc of the PostLog succeeding or failing; hist.sched_calls counts   *)
(* the schedule-post operations                                            *)

\* No post is created or scheduled once next_post_id has handed out
\* MaxProcIds ids (one more than INITIAL_POST_CAP); at most MaxSchedCalls
\* posts are scheduled in a run.
MaxProcIds == 17
MaxSchedCalls == 2

\* the time and content lines typed at a schedule-post operation: "1" and
\* "h", "1" and "i", "2" and "i"
SchedLines == {<<<<49>>, <<104>>>>, <<<<49>>, <<105>>>>, <<<<50>>, <<105>>>>}

DsaCreatePostFill ==
    /\ d_pid <= MaxProcIds
    /\ create_post_ui(NameA, Pw1, <<104>>, TRUE)
    /\ UNCHANGED <<smmVars, d_users, d_scheduled, d_mq, clock, hist>>

DsaSchedulePostCounted(t, c) ==
    /\ d_pid <= MaxProcIds
    /\ hist.sched_calls < MaxSchedCalls
    /\ schedule_post_ui(NameA, Pw1, t, c, TRUE)
    /\ hist' = [hist EXCEPT !.sched_calls = @ + 1]
    /\ UNCHANGED <<smmVars, d_users, d_published, d_mq, clock>>

\* Menu choice 7 with the realloc of push_post_array succeeding or failing.
DsaProcessScheduledFlagged(alloc) ==
    /\ LET r == process_scheduled(d_scheduled, d_published, d_pid, clock, alloc)
       IN  /\ d_scheduled' = r.sl
           /\ d_published' = r.pa
           /\ d_pid' = r.pid
           /\ last' = [op |-> "process_scheduled", now |-> clock, buf |-> r.buf,
                       appended |-> SubSeq(r.pa.data, d_published.size + 1, r.pa.size)]
    /\ hist' = [hist EXCEPT !.allocs = <<alloc>>]
    /\ UNCHANGED <<smmVars, d_users, d_mq, clock>>

NextProcess ==
    \/ Tick
    \/ DsaCreateUser(NameA)
    \/ DsaCreatePostFill
    \/ \E l \in SchedLines : DsaSchedulePostCounted(l[1], l[2])
    \/ \E alloc \in BOOLEAN : DsaProcessScheduledFlagged(alloc)

SpecProcess == Init /\ [][NextProcess]_vars

\* the ScheduledPosts a step removes from the ScheduleList (ids are unique)
RemovedBy(before, after) ==
    SelectSeq(before, LAMBDA sp : \A j \in 1..Len(after) : after[j].id # sp.id)

\* C25: every ScheduledPost a process_scheduled call removes from the
\* ScheduleList yields exactly one Post appended to the PostLog with its
\* author and content, the posts of the call in ascending release-time order,
\* so that no scheduled post leaves the list without reaching the PostLog.
C25_DuePostsPublished ==
    [][ last'.op = "process_scheduled" =>
            LET removed  == RemovedBy(d_scheduled, d_scheduled')
                appended == SubSeq(d_published'.data, d_published.size + 1,
                                   d_published'.size)
            IN  /\ Len(appended) = Len(removed)
                /\ \A i \in 1..Len(removed) :
                      /\ appended[i].author = removed[i].author
                      /\ appended[i].content = removed[i].content
                /\ \A i \in 1..(Len(removed) - 1) :
                      removed[i].scheduled_time <= removed[i + 1].scheduled_time ]_vars

-----------------------------------------------------------------------------
(* SpecDsaFollow: users of DSA_MINI_PROJECT.c are created and follow and    *)
(* unfollow each other and themselves from the menu                         *)

\* n->user.followers += df; n->user.following += dg for the node n that
\* bst_find returned for the username.
RECURSIVE dsa_user_add(_, _, _, _)
dsa_user_add(root, username, df, dg) ==
    IF root = NULL THEN NULL
    ELSE LET cmp == StrCmp(username, root.user.username)
         IN  IF cmp = 0
             THEN [root EXCEPT !.user.followers = @ + df, !.user.following = @ + dg]
             ELSE IF cmp < 0
             THEN [root EXCEPT !.left = dsa_user_add(root.left, username, df, dg)]
             ELSE [root EXCEPT !.right = dsa_user_add(root.right, username, df, dg)]

\* follow_unfollow; typedA, typedB and typedPw are the lines typed at the
\* three prompts, follow is the int the menu passes (1 for choice 3, 0 for
\* choice 4).  The two counters are updated one after the other, B being
\* looked at after A was changed.
follow_unfollow(typedA, typedB, typedPw, follow) ==
    LET a == get_line(typedA, USERNAME_MAX)
        b == get_line(typedB, USERNAME_MAX)
        A == dsa_bst_find(d_users, a)
        B == dsa_bst_find(d_users, b)
        afterA == IF follow # 0 THEN dsa_user_add(d_users, a, 0, 1)
                  ELSE IF A.user.following > 0 THEN dsa_user_add(d_users, a, 0, -1)
                  ELSE d_users
        B2 == dsa_bst_find(afterA, b)
        afterB == IF follow # 0 THEN dsa_user_add(afterA, b, 1, 0)
                  ELSE IF B2.user.followers > 0 THEN dsa_user_add(afterA, b, -1, 0)
                  ELSE afterA
    IN  IF A = NULL \/ B = NULL
        THEN /\ last' = [op |-> "follow_unfollow", follow |-> follow, a |-> typedA,
                         b |-> typedB, msg |-> "One or both users not found."]
             /\ UNCHANGED d_users
        ELSE IF ~verify_password(A, typedPw)
        THEN /\ last' = [op |-> "follow_unfollow", follow |-> follow, a |-> typedA,
                         b |-> typedB, msg |-> "Incorrect password."]
             /\ UNCHANGED d_users
        ELSE /\ d_users' = afterB
             /\ last' = [op |-> "follow_unfollow", follow |-> follow, a |-> typedA,
                         b |-> typedB,
                         msg |-> IF follow # 0 THEN "now follows" ELSE "unfollowed"]

\* No follow is made once a counter has reached MaxDsaCounter.
MaxDsaCounter == 2

DsaFollowUnfollow(a, b, p, follow) ==
    /\ IF follow # 0 THEN CountersBelow(d_users, MaxDsaCounter) ELSE TRUE
    /\ follow_unfollow(a, b, p, follow)
    /\ UNCHANGED <<smmVars, d_published, d_scheduled, d_mq, d_pid, clock, hist>>

NextDsaFollow ==
    \/ \E u \in DsaUserNames : DsaCreateUser(u)
    \/ \E a, b \in {NameA, NameB, NameC}, p \in Passwords : DsaFollowUnfollow(a, b, p, 1)
    \/ \E a, b \in {NameA, NameB, NameC}, p \in Passwords : DsaFollowUnfollow(a, b, p, 0)

SpecDsaFollow == Init /\ [][NextDsaFollow]_vars

\* the sums of the two counters over the users of the tree
RECURSIVE SumFollowers(_)
SumFollowers(root) ==
    IF root = NULL THEN 0
    ELSE root.user.followers + SumFollowers(root.left) + SumFollowers(root.right)

RECURSIVE SumFollowing(_)
SumFollowing(root) ==
    IF root = NULL THEN 0
    ELSE root.user.following + SumFollowing(root.left) + SumFollowing(root.right)

RECURSIVE CountersNonNegative(_)
CountersNonNegative(root) ==
    IF root = NULL THEN TRUE
    ELSE /\ root.user.followers >= 0
         /\ root.user.following >= 0
         /\ CountersNonNegative(root.left)
         /\ CountersNonNegative(root.right)

\* C32: whatever follow and unfollow operations ran (follow_unfollow with the
\* correct password), every counter is non-negative and the followers counters
\* of all users add up to the same number as their following counters.
C32_CounterSumsEqual ==
    /\ CountersNonNegative(d_users)
    /\ SumFollowers(d_users) = SumFollowing(d_users)

====
